---- MODULE Spec2Model ----
(***************************************************************************)
(* from.js - LINQ for JavaScript.                                          *)
(*                                                                         *)
(* A model of the lazy sequence combinator engine in its two shapes:       *)
(*   variant = "pull"  src/src/from.ts       (iterators only)              *)
(*   variant = "push"  src/unnamed/part_000  (iterators and forEach)       *)
(*                                                                         *)
(* A pipeline is a tree of source nodes (records tagged by kind).  Pull    *)
(* traversal is a cursor advanced by IterNext; push traversal is          *)
(* iterateOver with the chain of callbacks kept as a list of frames.  Both *)
(* thread a world w: the log of observable events, the memo heap and the   *)
(* exception in flight.                                                    *)
(***************************************************************************)
EXTENDS Integers, Sequences, FiniteSets, TLC

VARIABLES variant, q, ops, hist, heap, budget

vars == <<variant, q, ops, hist, heap, budget>>

(***************************************************************************)
(* Bounds of the model.                                                    *)
(***************************************************************************)
MaxVal == 1
MaxLen == 3
MaxStages == 2
MaxCount == 2
MaxWindow == 1
MaxStop == 2
MaxRuns == 2

Values == 0..MaxVal

\* JavaScript's undefined (an empty array slot, a missing result).
undefined == 0 - 1

\* NaN as an array index (SkipLastSource with count 0: (ptr + 1) % 0).
NaNIdx == 0 - 2

Min(a, b) == IF a < b THEN a ELSE b
Max(a, b) == IF a > b THEN a ELSE b

RECURSIVE SeqsUpTo(_, _)
SeqsUpTo(S, n) ==
    IF n = 0 THEN {<<>>}
    ELSE LET shorter == SeqsUpTo(S, n - 1)
         IN  shorter \cup {Append(s, x) : s \in {t \in shorter : Len(t) = n - 1}, x \in S}

Arrays == SeqsUpTo(Values, MaxLen)

(***************************************************************************)
(* The world threaded through a traversal: the event log, the memo heap    *)
(* (MemoSource objects' caches, by node id; cell 0 holds the outcomes the  *)
(* random number generator will have) and the exception in flight (err,    *)
(* "" when none): once something has thrown nothing more happens.          *)
(***************************************************************************)
Ev(e, f, i, v, ws) == [e |-> e, f |-> f, i |-> i, v |-> v, ws |-> ws]

\* A call of a function the caller supplied is an event.  The function
\* named boom throws when it is handed 1:
\*   v => { if (v === 1) throw new Error(); return ... }
Emit(w, ev) ==
    IF w.err /= "" THEN w
    ELSE IF ev.f = "boom" /\ ev.v = 1
    THEN [w EXCEPT !.log = Append(@, ev), !.err = "Error"]
    ELSE [w EXCEPT !.log = Append(@, ev)]

\* throw new <name>(...)
Throw(w, name) == IF w.err /= "" THEN w ELSE [w EXCEPT !.err = name]

NoMemo == [ran |-> FALSE, vals |-> <<>>]

EmptyHeap == [id \in 0..(MaxStages + 1) |-> NoMemo]

World(h) == [log |-> <<>>, memo |-> h, err |-> ""]

Count(log, e) == Cardinality({n \in 1..Len(log) : log[n].e = e})

RECURSIVE Pick(_, _)
Pick(log, e) ==
    IF log = <<>> THEN <<>>
    ELSE IF Head(log).e = e THEN <<Head(log).v>> \o Pick(Tail(log), e)
         ELSE Pick(Tail(log), e)

(***************************************************************************)
(* Source nodes.                                                           *)
(***************************************************************************)
\* a plain JavaScript array handed to the library
RawArray(xs) == [kind |-> "rawArray", xs |-> xs, name |-> "src"]
\* new ArrayLikeSource(array)
ArrayLikeSource(xs, name) == [kind |-> "array", xs |-> xs, name |-> name]
\* an iterable that has neither length nor forEach (a generator object)
IterNode(xs) == [kind |-> "iter", xs |-> xs, name |-> "src"]
\* new Query(source)
Query(src) == [kind |-> "query", src |-> src]

\* sourceOf: the push variant wraps whatever has a length in an
\* ArrayLikeSource; the pull variant wraps only what is not iterable, and an
\* array is iterable.  Everything else (a Query, a generator) is itself.
sourceOf(queryable) ==
    IF variant = "push" /\ queryable.kind = "rawArray"
    THEN ArrayLikeSource(queryable.xs, queryable.name)
    ELSE queryable

ConcatSource(srcs) == [kind |-> "concat", srcs |-> srcs]
DistinctSource(src, f) == [kind |-> "distinct", src |-> src, f |-> f]
FatMapSource(src, f, n) == [kind |-> "fatMap", src |-> src, f |-> f, n |-> n]
IntersperseSource(src, v) == [kind |-> "intersperse", src |-> src, v |-> v]
MemoSource(src, id) == [kind |-> "memo", src |-> src, id |-> id]
SelectSource(src, f) == [kind |-> "select", src |-> src, f |-> f]
SelectManySource(src, f) == [kind |-> "selectMany", src |-> src, f |-> f]
SkipSource(src, n) == [kind |-> "skip", src |-> src, n |-> n]
SkipLastSource(src, n) == [kind |-> "skipLast", src |-> src, n |-> n]
SkipWhileSource(src, p) == [kind |-> "skipWhile", src |-> src, p |-> p]
TakeSource(src, n) == [kind |-> "take", src |-> src, n |-> n]
TakeWhileSource(src, p) == [kind |-> "takeWhile", src |-> src, p |-> p]
ThruSource(src, f, n) == [kind |-> "thru", src |-> src, f |-> f, n |-> n]
WhereSource(src, p) == [kind |-> "where", src |-> src, p |-> p]
WithoutSource(src, vs) == [kind |-> "without", src |-> src, vs |-> vs]
ZipSource(l, r, f) == [kind |-> "zip", src |-> l, right |-> r, f |-> f]

\* from(...sources)
from(sources) ==
    IF variant = "pull" /\ Len(sources) = 1
    THEN Query(sourceOf(sources[1]))
    ELSE Query(ConcatSource([i \in 1..Len(sources) |-> sourceOf(sources[i])]))

\* new OrderBySource(source, keySelector, descending, auxiliary)
OrderBySource(src, f, desc, auxiliary) ==
    LET keyMaker == [keySelector |-> f, descending |-> desc]
    IN  IF auxiliary /\ src.kind = "orderBy"
        THEN [kind |-> "orderBy", src |-> src.src,
              keyMakers |-> Append(src.keyMakers, keyMaker)]
        ELSE [kind |-> "orderBy", src |-> src, keyMakers |-> <<keyMaker>>]

(***************************************************************************)
(* The operators of Query that build a pipeline.                           *)
(***************************************************************************)
Query_concat(this, sources) ==
    Query(ConcatSource(<<this.src>> \o [i \in 1..Len(sources) |-> sourceOf(sources[i])]))
Query_distinct(this, keySelector) == Query(DistinctSource(this.src, keySelector))
Query_fatMap(this, selector, windowSize) == Query(FatMapSource(this.src, selector, windowSize))
Query_intersperse(this, value) == Query(IntersperseSource(this.src, value))
Query_memoize(this, id) == Query(MemoSource(this.src, id))
Query_orderBy(this, keySelector, direction) ==
    Query(OrderBySource(this.src, keySelector, direction = "desc", FALSE))
SortQuery_thenBy(this, keySelector, direction) ==
    Query(OrderBySource(this.src, keySelector, direction = "desc", TRUE))
Query_reverse(this) == Query(ThruSource(this.src, "reverse", 0))
Query_sample(this, count) == Query(ThruSource(this.src, "sample", count))
Query_shuffle(this) == Query(ThruSource(this.src, "shuffle", 0))
Query_select(this, selector) == Query(SelectSource(this.src, selector))
Query_selectMany(this, selector) == Query(SelectManySource(this.src, selector))
Query_skip(this, count) == Query(SkipSource(this.src, count))
Query_skipLast(this, count) == Query(SkipLastSource(this.src, count))
Query_skipWhile(this, predicate) == Query(SkipWhileSource(this.src, predicate))
Query_take(this, count) == Query(TakeSource(this.src, count))
Query_takeLast(this, count) == Query(ThruSource(this.src, "takeLast", count))
Query_takeWhile(this, predicate) == Query(TakeWhileSource(this.src, predicate))
Query_where(this, predicate) == Query(WhereSource(this.src, predicate))
Query_without(this, values) == Query(WithoutSource(this.src, values))
Query_zip(this, zipSource, selector) == Query(ZipSource(this.src, sourceOf(zipSource), selector))

(***************************************************************************)
(* Caller-supplied functions, named by tags.                               *)
(***************************************************************************)
\* zip selectors (lValue, rValue) => R
ZipSelectors == {"sum", "left", "right"}

ZipSel(f, l, r) ==
    CASE f = "sum"   -> l + r
      [] f = "left"  -> l
      [] OTHER       -> r

\* join predicates (lValue, rValue) => boolean
JoinPredicates == {"eq", "lt"}

JoinPred(p, l, r) ==
    CASE p = "eq"    -> l = r
      [] p = "lt"    -> l < r
      [] OTHER       -> TRUE

\* groupJoin selectors (lValue, rValues) => R: they hand the group on as it
\* is, without iterating it
GroupSelectors == {"pair"}

GroupSel(f, l, rValues) == [l |-> l, rValues |-> rValues]

\* A function made inside join or groupJoin captures values of its
\* surroundings: its tag names the code it runs and the values captured
\* (numbers, names of functions, and the elements of an array).
Closure(code, env) == code \o "@" \o ToString(env)

\* the left elements such a function may capture as lValue
Captured == undefined..(MaxVal + MaxStages)

\* what join and groupJoin are handed as joinSource: a plain array, or a
\* Query the caller made, from(ys).take(n)
JoinArray(ys) == [kind |-> "rawArray", xs |-> ys, name |-> "right"]
JoinSources ==
    {JoinArray(<<>>), JoinArray(<<0>>), JoinArray(<<1, 0>>), JoinArray(<<0, 1, 1>>)}
JoinQuery(ys, n) == Query_take(from(<<JoinArray(ys)>>), n)
JoinQueries == {JoinQuery(<<1, 0>>, 1), JoinQuery(<<0, 1>>, 2)}
RightSources == JoinSources \cup JoinQueries

\* the joinSource a closure captured, as its tag shows it: the elements of
\* the array, or the count of the take and the elements of the array under it
JoinKey(joinSource) ==
    IF joinSource.kind = "rawArray" THEN joinSource.xs
    ELSE <<"take", joinSource.src.n,
           IF joinSource.src.src.kind = "concat" THEN joinSource.src.src.srcs[1].xs
           ELSE joinSource.src.src.xs>>

\* it => predicate(lValue, it), named Closure(predicate, lValue)
Pred_closure(p, v) ==
    \E predicate \in JoinPredicates, lValue \in Captured :
        p = Closure(predicate, lValue) /\ JoinPred(predicate, lValue, v)

Predicates == {"even", "pos", "small"}

Pred(p, v) ==
    CASE p = "even"  -> v % 2 = 0
      [] p = "pos"   -> v > 0
      [] p = "small" -> v < 2
      [] p = "true"  -> TRUE
      [] p \in {"boom", "calm"} -> v % 2 = 0
      [] OTHER       -> Pred_closure(p, v)

\* it => selector(lValue, it), named Closure(selector, lValue); any other
\* tag is the identity
Sel_closure(f, v) ==
    LET envs == {e \in ZipSelectors \X Captured : f = Closure(e[1], e[2])}
        env == CHOOSE e \in envs : TRUE
    IN  IF envs = {} THEN v ELSE ZipSel(env[1], env[2], v)

Selectors == {"id", "inc", "half"}

Sel(f, v) ==
    CASE f = "id"    -> v
      [] f = "inc"   -> v + 1
      [] f = "half"  -> v \div 2
      [] f = "mod2"  -> v % 2
      [] f = "zero"  -> 0
      [] f \in {"boom", "calm"} -> v
      [] OTHER       -> Sel_closure(f, v)

\* the selector of a select stage, which groupJoin makes as
\*   lValue => { const rValues = from(joinSource).where(it => predicate(lValue, it));
\*               return selector(lValue, rValues); }
\* named Closure("groupJoin", <<joinSource, predicate, selector>>)
Sel_groupJoin(f, lValue) ==
    LET envs == {e \in RightSources \X JoinPredicates \X GroupSelectors :
                    f = Closure("groupJoin", <<JoinKey(e[1]), e[2], e[3]>>)}
        env == CHOOSE e \in envs : TRUE
        rValues == Query_where(from(<<env[1]>>), Closure(env[2], lValue))
    IN  IF envs = {} THEN Sel(f, lValue) ELSE GroupSel(env[3], lValue, rValues)

\* a parameter the caller left out is undefined, and calling it throws
Callable(f) == f /= "undefined"

\* lValue => from(joinSource).where(it => predicate(lValue, it))
\*                             .select(it => selector(lValue, it))
\* named Closure("join", <<joinSource, predicate, selector>>); any other tag
\* returns an empty array
ManySel_join(f, lValue) ==
    LET envs == {e \in RightSources \X JoinPredicates \X ZipSelectors :
                    f = Closure("join", <<JoinKey(e[1]), e[2], e[3]>>)}
        env == CHOOSE e \in envs : TRUE
    IN  IF envs = {} THEN [kind |-> "rawArray", xs |-> <<>>, name |-> "inner"]
        ELSE Query_select(Query_where(from(<<env[1]>>), Closure(env[2], lValue)),
                          Closure(env[3], lValue))

\* what a selectMany selector returns: a plain array or a Query
\*   dup    v => [v, v]
\*   upto   v => [0, ..., v - 1]
\*   evens  a Query over [v, v + 1] keeping the even one
\*   head   v => from([v, v + 1]).take(1)
\*   nest   v => [[v], [v, v]], an array of arrays
\*   it     it => it, of except and intercalate
ManySelectors == {"dup", "upto", "evens", "head", "nest"}

ManySel(f, v) ==
    CASE f = "dup"   -> [kind |-> "rawArray", xs |-> <<v, v>>, name |-> "inner"]
      [] f = "upto"  -> [kind |-> "rawArray", xs |-> [n \in 1..v |-> n - 1], name |-> "inner"]
      [] f = "evens" -> Query(WhereSource(
                            sourceOf([kind |-> "rawArray", xs |-> <<v, v + 1>>, name |-> "inner"]),
                            "even"))
      [] f = "head"  -> Query_take(
                            from(<<[kind |-> "rawArray", xs |-> <<v, v + 1>>, name |-> "inner"]>>),
                            1)
      [] f = "nest"  -> [kind |-> "rawArray", xs |-> <<(<<v>>), <<v, v>>>>, name |-> "inner"]
      [] f = "it"    -> v
      [] OTHER       -> ManySel_join(f, v)

Query_join(this, joinSource, predicate, selector) ==
    Query_selectMany(this, Closure("join", <<JoinKey(joinSource), predicate, selector>>))

\* a groupJoin whose groups hold the right elements above the left one
\* whatever predicate it is handed (C20 tells it apart)
Query_groupJoin_less(this, joinSource, predicate, selector) ==
    Query_select(this, Closure("groupJoin", <<JoinKey(joinSource), "lt", selector>>))

Query_groupJoin(this, joinSource, predicate, selector) ==
    Query_select(this, Closure("groupJoin", <<JoinKey(joinSource), predicate, selector>>))

(***************************************************************************)
(* ChungusSource / ChubSource: the circular window buffer of fatMap.       *)
(***************************************************************************)
\* new ChungusSource(windowSize): this.stride = windowSize * 2 + 1;
\* this.buffer = new Array(this.stride); this.armSize = windowSize.
\* new Array of a negative length throws RangeError (Invalid array length):
\* the constructor then makes no object, which the record [throws] stands for
ChungusSource(windowSize) ==
    IF windowSize * 2 + 1 < 0 THEN [throws |-> "RangeError"]
    ELSE [armSize |-> windowSize,
          buffer |-> [n \in 0..(windowSize * 2) |-> undefined],
          leftArm |-> 0 - 1,
          readPtr |-> 0 - 1,
          rightArm |-> 0,
          stride |-> windowSize * 2 + 1,
          writePtr |-> 0]

\* whether new ChungusSource(windowSize) threw
ChungusSource_throws(chungus) == "throws" \in DOMAIN chungus

\* advance() without the clamp of leftArm to armSize (C5 tells it apart)
ChungusSource_advance_unclamped(c) ==
    [c EXCEPT !.readPtr = IF c.readPtr + 1 >= c.stride THEN 0 ELSE c.readPtr + 1,
              !.leftArm = c.leftArm + 1,
              !.rightArm = c.rightArm - 1]

\* the state after advance(); its result is ChungusSource_advances
ChungusSource_advance(c) ==
    [c EXCEPT !.readPtr = IF c.readPtr + 1 >= c.stride THEN 0 ELSE c.readPtr + 1,
              !.leftArm = IF c.leftArm + 1 > c.armSize THEN c.armSize ELSE c.leftArm + 1,
              !.rightArm = c.rightArm - 1]

\* the value advance() returns: rightArm-- > 0
ChungusSource_advances(c) == c.rightArm > 0

\* feed() advancing as soon as the right arm is full, not once it is
\* over-full
ChungusSource_feed_early(c, value) ==
    LET c1 == [c EXCEPT !.buffer[c.writePtr] = value,
                        !.writePtr = IF c.writePtr + 1 >= c.stride THEN 0 ELSE c.writePtr + 1,
                        !.rightArm = c.rightArm + 1]
    IN  IF c1.rightArm >= c1.armSize THEN ChungusSource_advance(c1) ELSE c1

ChungusSource_feed(c, value) ==
    LET c1 == [c EXCEPT !.buffer[c.writePtr] = value,
                        !.writePtr = IF c.writePtr + 1 >= c.stride THEN 0 ELSE c.writePtr + 1,
                        !.rightArm = c.rightArm + 1]
    IN  IF c1.rightArm > c1.armSize THEN ChungusSource_advance(c1) ELSE c1

\* value, had it been the element fed last
ChungusSource_value_newest(c) == c.buffer[(c.writePtr + c.stride - 1) % c.stride]

ChungusSource_value(c) == c.buffer[c.readPtr]

\* the elements [Symbol.iterator] / forEach of the window visit, in order
ChungusSource_iterator(c) ==
    LET ptr == ((c.readPtr + c.stride) - c.leftArm) % c.stride
        len == 1 + c.leftArm + c.rightArm
    IN  [n \in 1..len |-> c.buffer[(ptr + (n - 1)) % c.stride]]

\* selectors handed the window
\* center  w => w.value
\* total   w => the sum of the elements of w
\* rest    w => [...w].slice(1), an array: empty when w holds one element
Windowers == {"center", "total", "rest"}

RECURSIVE SumSeq(_)
SumSeq(s) == IF s = <<>> THEN 0 ELSE Head(s) + SumSeq(Tail(s))

WinSel(f, c) ==
    IF f = "total" THEN SumSeq(ChungusSource_iterator(c))
    ELSE IF f = "rest" THEN Tail(ChungusSource_iterator(c))
    ELSE ChungusSource_value(c)

\* one invocation of the fatMap selector, logged with what the window shows
CallWindow(f, c, w) ==
    Emit(w, Ev("win", f, 0, ChungusSource_value(c), ChungusSource_iterator(c)))

(***************************************************************************)
(* Pull traversal.  Open(node, w) is node[Symbol.iterator]() and           *)
(* IterNext(node, c, w) is one call of the cursor's next(); both return the    *)
(* new cursor and world.  A generator does nothing until its first next(): *)
(* its cursor starts at pc = "start" and opens its upstream then.          *)
(***************************************************************************)
Yield(v, c, w) == [done |-> FALSE, val |-> v, cur |-> c, w |-> w]
Finish(c, w) == [done |-> TRUE, val |-> undefined, cur |-> [c EXCEPT !.pc = "done"], w |-> w]

NoCursor == [pc |-> "none"]

\* What one source asks of another goes through Eval, the one operator the
\* sources recur through; it is defined after them and dispatches on ask:
\*   Open         node[Symbol.iterator]()
\*   IterNext     next() of the iterator with cursor c
\*   iterateOver  iterateOver(source, iteratee), k the iteratee
\*   Call         iteratee(v)
\*   Run          a traversal the caller makes of a Query
RECURSIVE Eval(_)
Open(node, w) == Eval([ask |-> "open", node |-> node, w |-> w])
IterNext(node, c, w) == Eval([ask |-> "next", node |-> node, c |-> c, w |-> w])
iterateOver(source, k, w) == Eval([ask |-> "iterateOver", node |-> source, k |-> k, w |-> w])
Call(k, v, w) == Eval([ask |-> "call", k |-> k, v |-> v, w |-> w])

\* for (const value of source): the first next() of a generator opens the
\* upstream iterator
Started(node, c, w) ==
    IF c.pc = "start"
    THEN LET o == Open(node.src, w)
         IN  [cur |-> [c EXCEPT !.pc = "loop", !.up = o.cur], w |-> o.w]
    ELSE [cur |-> c, w |-> w]

\* the array iterator of a plain array, and ArrayLikeSource[Symbol.iterator]
ArrayLikeSource_iterator(node, c, w) ==
    IF c.pc = "done" \/ c.i >= Len(node.xs) THEN Finish(c, w)
    ELSE Yield(node.xs[c.i + 1], [c EXCEPT !.pc = "loop", !.i = c.i + 1],
               Emit(w, Ev("read", node.name, c.i, node.xs[c.i + 1], <<>>)))

RECURSIVE ConcatSource_iterator(_, _, _)
ConcatSource_iterator(node, c, w) ==
    IF c.pc = "done" THEN Finish(c, w)
    ELSE IF c.i > Len(node.srcs) THEN Finish(c, w)
    ELSE LET o == IF c.pc = "start" \/ c.up.pc = "none"
                  THEN Open(node.srcs[c.i], w)
                  ELSE [cur |-> c.up, w |-> w]
             r == IterNext(node.srcs[c.i], o.cur, o.w)
         IN  IF r.done
             THEN ConcatSource_iterator(node, [c EXCEPT !.pc = "loop", !.i = c.i + 1, !.up = NoCursor], r.w)
             ELSE Yield(r.val, [c EXCEPT !.pc = "loop", !.up = r.cur], r.w)

\* the iterator, had foundKeys been a field of the DistinctSource (cell 0 of
\* the heap) and not a constant of the generator (C38 tells it apart)
RECURSIVE DistinctSource_iterator_field(_, _, _)
DistinctSource_iterator_field(node, c, w) ==
    IF c.pc = "done" THEN Finish(c, w)
    ELSE LET s == Started(node, c, w)
             r == IterNext(node.src, s.cur.up, s.w)
             found == {r.w.memo[0].vals[i] : i \in 1..Len(r.w.memo[0].vals)}
         IN  IF r.done THEN Finish([s.cur EXCEPT !.up = r.cur], r.w)
             ELSE LET key == Sel(node.f, r.val)
                      w2 == Emit(r.w, Ev("key", node.f, 1, r.val, <<>>))
                  IN  IF key \notin found
                      THEN Yield(r.val, [s.cur EXCEPT !.up = r.cur],
                                 [w2 EXCEPT !.memo[0].vals = Append(@, key)])
                      ELSE DistinctSource_iterator_field(node, [s.cur EXCEPT !.up = r.cur], w2)

RECURSIVE DistinctSource_iterator(_, _, _)
DistinctSource_iterator(node, c, w) ==
    IF c.pc = "done" THEN Finish(c, w)
    ELSE LET s == Started(node, c, w)
             r == IterNext(node.src, s.cur.up, s.w)
         IN  IF r.done THEN Finish([s.cur EXCEPT !.up = r.cur], r.w)
             ELSE IF ~Callable(node.f)
             THEN \* this.keySelector is not a function
                  Finish([s.cur EXCEPT !.up = r.cur], Throw(r.w, "TypeError"))
             ELSE LET key == Sel(node.f, r.val)
                      w2 == Emit(r.w, Ev("key", node.f, 1, r.val, <<>>))
                  IN  IF key \notin s.cur.foundKeys
                      THEN Yield(r.val, [s.cur EXCEPT !.up = r.cur, !.foundKeys = @ \cup {key}], w2)
                      ELSE DistinctSource_iterator(node, [s.cur EXCEPT !.up = r.cur], w2)

RECURSIVE FatMapSource_iterator(_, _, _)
FatMapSource_iterator(node, c, w) ==
    IF c.pc = "done" THEN Finish(c, w)
    ELSE IF c.pc = "start" /\ ChungusSource_throws(c.chungus)
    THEN \* const chungus = new ChungusSource(this.windowSize) throws
         Finish(c, Throw(w, c.chungus.throws))
    ELSE IF c.pc = "drain"
    THEN \* while (chungus.advance()) yield this.selector(chungus);
         LET ch == ChungusSource_advance(c.chungus)
         IN  IF ChungusSource_advances(c.chungus)
             THEN Yield(WinSel(node.f, ch), [c EXCEPT !.chungus = ch], CallWindow(node.f, ch, w))
             ELSE Finish([c EXCEPT !.chungus = ch], w)
    ELSE LET s == Started(node, c, w)
             r == IterNext(node.src, s.cur.up, s.w)
         IN  IF r.done
             THEN FatMapSource_iterator(node, [s.cur EXCEPT !.pc = "drain", !.up = r.cur], r.w)
             ELSE LET ch == ChungusSource_feed(s.cur.chungus, r.val)
                      c2 == [s.cur EXCEPT !.up = r.cur, !.chungus = ch, !.lag = s.cur.lag - 1]
                  IN  IF c2.lag <= 0
                      THEN Yield(WinSel(node.f, ch), c2, CallWindow(node.f, ch, r.w))
                      ELSE FatMapSource_iterator(node, c2, r.w)

IntersperseSource_iterator(node, c, w) ==
    IF c.pc = "done" THEN Finish(c, w)
    ELSE IF c.pc = "value"
    THEN \* resumed after yield this.value: yield value
         Yield(c.pending, [c EXCEPT !.pc = "loop", !.firstElement = FALSE], w)
    ELSE LET s == Started(node, c, w)
             r == IterNext(node.src, s.cur.up, s.w)
         IN  IF r.done THEN Finish([s.cur EXCEPT !.up = r.cur], r.w)
             ELSE IF ~s.cur.firstElement
                  THEN Yield(node.v, [s.cur EXCEPT !.pc = "value", !.up = r.cur, !.pending = r.val], r.w)
                  ELSE Yield(r.val, [s.cur EXCEPT !.up = r.cur, !.firstElement = FALSE], r.w)

\* a select that asks its source for the element after the one it maps,
\* as if it read ahead (C30 tells it apart)
SelectSource_iterator_ahead(node, c, w) ==
    IF c.pc = "done" THEN Finish(c, w)
    ELSE LET s == Started(node, c, w)
             r == IterNext(node.src, s.cur.up, s.w)
             ahead == IterNext(node.src, r.cur, r.w)
         IN  IF r.done THEN Finish([s.cur EXCEPT !.up = r.cur], r.w)
             ELSE Yield(Sel_groupJoin(node.f, r.val), [s.cur EXCEPT !.up = ahead.cur],
                        Emit(ahead.w, Ev("sel", node.f, 0, r.val, <<>>)))

SelectSource_iterator(node, c, w) ==
    IF c.pc = "done" THEN Finish(c, w)
    ELSE LET s == Started(node, c, w)
             r == IterNext(node.src, s.cur.up, s.w)
         IN  IF r.done THEN Finish([s.cur EXCEPT !.up = r.cur], r.w)
             ELSE Yield(Sel_groupJoin(node.f, r.val), [s.cur EXCEPT !.up = r.cur],
                        Emit(r.w, Ev("sel", node.f, 0, r.val, <<>>)))

RECURSIVE SkipSource_iterator(_, _, _)
SkipSource_iterator(node, c, w) ==
    IF c.pc = "done" THEN Finish(c, w)
    ELSE LET s == Started(node, c, w)
             r == IterNext(node.src, s.cur.up, s.w)
         IN  IF r.done THEN Finish([s.cur EXCEPT !.up = r.cur], r.w)
             ELSE LET c2 == [s.cur EXCEPT !.up = r.cur, !.skipsLeft = s.cur.skipsLeft - 1]
                  IN  IF s.cur.skipsLeft <= 0 THEN Yield(r.val, c2, r.w)
                      ELSE SkipSource_iterator(node, c2, r.w)

RECURSIVE SelectManySource_iterator(_, _, _)
SelectManySource_iterator(node, c, w) ==
    IF c.pc = "done" THEN Finish(c, w)
    ELSE IF c.pc = "inner"
    THEN \* inside yield* sourceOf(this.selector(value))
         LET r == IterNext(c.results, c.inner, w)
         IN  IF r.done
             THEN SelectManySource_iterator(node, [c EXCEPT !.pc = "loop", !.inner = NoCursor], r.w)
             ELSE Yield(r.val, [c EXCEPT !.inner = r.cur], r.w)
    ELSE LET s == Started(node, c, w)
             r == IterNext(node.src, s.cur.up, s.w)
         IN  IF r.done THEN Finish([s.cur EXCEPT !.up = r.cur], r.w)
             ELSE LET results == sourceOf(ManySel(node.f, r.val))
                      w2 == Emit(r.w, Ev("sel", node.f, 0, r.val, <<>>))
                      o == Open(results, w2)
                  IN  SelectManySource_iterator(node,
                          [s.cur EXCEPT !.pc = "inner", !.up = r.cur,
                                        !.results = results, !.inner = o.cur], o.w)

\* new Array(count): count empty slots; with count 0 the generator still
\* reads and writes slot 0 and then slot NaN ((ptr + 1) % 0)
SkipLast_buffer(count) == [n \in (0..(Max(count, 1) - 1)) \cup {NaNIdx} |-> undefined]

SkipLast_nextPtr(ptr, count) ==
    IF count = 0 \/ ptr = NaNIdx THEN NaNIdx ELSE (ptr + 1) % count

RECURSIVE SkipLastSource_iterator(_, _, _)
SkipLastSource_iterator(node, c, w) ==
    IF c.pc = "done" THEN Finish(c, w)
    ELSE IF c.pc = "start" /\ node.n < 0
    THEN \* new Array(this.count): Invalid array length
         Finish(c, Throw(w, "RangeError"))
    ELSE LET s == Started(node, c, w)
             r == IterNext(node.src, s.cur.up, s.w)
         IN  IF r.done THEN Finish([s.cur EXCEPT !.up = r.cur], r.w)
             ELSE LET c2 == [s.cur EXCEPT !.up = r.cur,
                                          !.skipsLeft = s.cur.skipsLeft - 1,
                                          !.buffer[s.cur.ptr] = r.val,
                                          !.ptr = SkipLast_nextPtr(s.cur.ptr, node.n)]
                  IN  IF s.cur.skipsLeft <= 0
                      THEN Yield(s.cur.buffer[s.cur.ptr], c2, r.w)
                      ELSE SkipLastSource_iterator(node, c2, r.w)

RECURSIVE SkipWhileSource_iterator(_, _, _)
SkipWhileSource_iterator(node, c, w) ==
    IF c.pc = "done" THEN Finish(c, w)
    ELSE LET s == Started(node, c, w)
             r == IterNext(node.src, s.cur.up, s.w)
         IN  IF r.done THEN Finish([s.cur EXCEPT !.up = r.cur], r.w)
             ELSE \* if (!onTheTake && this.predicate(value)) onTheTake = true;
                  LET asked == ~s.cur.onTheTake
                      w2 == IF asked THEN Emit(r.w, Ev("pred", node.p, 0, r.val, <<>>)) ELSE r.w
                      onTheTake == s.cur.onTheTake \/ (asked /\ Pred(node.p, r.val))
                      c2 == [s.cur EXCEPT !.up = r.cur, !.onTheTake = onTheTake]
                  IN  IF onTheTake THEN Yield(r.val, c2, w2)
                      ELSE SkipWhileSource_iterator(node, c2, w2)

TakeSource_iterator(node, c, w) ==
    IF c.pc = "done" THEN Finish(c, w)
    ELSE LET s == Started(node, c, w)
             r == IterNext(node.src, s.cur.up, s.w)
         IN  IF r.done THEN Finish([s.cur EXCEPT !.up = r.cur], r.w)
             ELSE IF s.cur.takesLeft <= 0
                  THEN \* break: the upstream iterator is closed
                       Finish([s.cur EXCEPT !.up = r.cur, !.takesLeft = s.cur.takesLeft - 1], r.w)
                  ELSE Yield(r.val, [s.cur EXCEPT !.up = r.cur, !.takesLeft = s.cur.takesLeft - 1], r.w)

TakeWhileSource_iterator(node, c, w) ==
    IF c.pc = "done" THEN Finish(c, w)
    ELSE LET s == Started(node, c, w)
             r == IterNext(node.src, s.cur.up, s.w)
         IN  IF r.done THEN Finish([s.cur EXCEPT !.up = r.cur], r.w)
             ELSE LET w2 == Emit(r.w, Ev("pred", node.p, 0, r.val, <<>>))
                  IN  IF ~Pred(node.p, r.val) THEN Finish([s.cur EXCEPT !.up = r.cur], w2)
                      ELSE Yield(r.val, [s.cur EXCEPT !.up = r.cur], w2)

RECURSIVE WhereSource_iterator(_, _, _)
WhereSource_iterator(node, c, w) ==
    IF c.pc = "done" THEN Finish(c, w)
    ELSE LET s == Started(node, c, w)
             r == IterNext(node.src, s.cur.up, s.w)
         IN  IF r.done THEN Finish([s.cur EXCEPT !.up = r.cur], r.w)
             ELSE LET w2 == Emit(r.w, Ev("pred", node.p, 0, r.val, <<>>))
                  IN  IF Pred(node.p, r.val) THEN Yield(r.val, [s.cur EXCEPT !.up = r.cur], w2)
                      ELSE WhereSource_iterator(node, [s.cur EXCEPT !.up = r.cur], w2)

RECURSIVE WithoutSource_iterator(_, _, _)
WithoutSource_iterator(node, c, w) ==
    IF c.pc = "done" THEN Finish(c, w)
    ELSE LET s == Started(node, c, w)
             r == IterNext(node.src, s.cur.up, s.w)
         IN  IF r.done THEN Finish([s.cur EXCEPT !.up = r.cur], r.w)
             ELSE IF r.val \notin node.vs THEN Yield(r.val, [s.cur EXCEPT !.up = r.cur], r.w)
                  ELSE WithoutSource_iterator(node, [s.cur EXCEPT !.up = r.cur], r.w)

ZipSource_iterator(node, c, w) ==
    IF c.pc = "done" THEN Finish(c, w)
    ELSE \* const iter = this.rightSource[Symbol.iterator](); then the for-of
         LET o == IF c.pc = "start" THEN Open(node.right, w) ELSE [cur |-> c.right, w |-> w]
             s == Started(node, [c EXCEPT !.right = o.cur], o.w)
             l == IterNext(node.src, s.cur.up, s.w)
         IN  IF l.done THEN Finish([s.cur EXCEPT !.up = l.cur], l.w)
             ELSE LET result == IterNext(node.right, s.cur.right, l.w)
                      c2 == [s.cur EXCEPT !.up = l.cur, !.right = result.cur]
                  IN  IF result.done THEN Finish(c2, result.w)
                      ELSE Yield(ZipSel(node.f, l.val, result.val), c2,
                                 Emit(result.w, Ev("zip", node.f, l.val, result.val, <<>>)))

(***************************************************************************)
(* OrderBySource: the key lists and the sort.                              *)
(***************************************************************************)
\* keyList[i] = this.keyMakers[i].keySelector(value), one call per key maker
OrderBy_keyList(keyMakers, value) ==
    [i \in 1..Len(keyMakers) |-> Sel(keyMakers[i].keySelector, value)]

\* the calls keyList[i] = this.keyMakers[i].keySelector(value), from key
\* maker i on: a key selector that throws ends them
RECURSIVE OrderBy_keyCallsFrom(_, _, _, _)
OrderBy_keyCallsFrom(keyMakers, value, i, w) ==
    IF i > Len(keyMakers) THEN w
    ELSE OrderBy_keyCallsFrom(keyMakers, value, i + 1,
                              Emit(w, Ev("key", keyMakers[i].keySelector, i, value, <<>>)))

\* key selectors called again for every key maker after the first, as if
\* the key list were not kept (C8 tells it apart)
OrderBy_keyCalls_again(keyMakers, value, w) ==
    OrderBy_keyCallsFrom(SubSeq(keyMakers, 1, Len(keyMakers) - 1), value, 1,
                         OrderBy_keyCallsFrom(keyMakers, value, 1, w))

OrderBy_keyCalls(keyMakers, value, w) == OrderBy_keyCallsFrom(keyMakers, value, 1, w)

\* a < b on two keys: undefined is converted to NaN, which is neither less
\* nor greater than anything
OrderBy_less(a, b) == a /= undefined /\ b /= undefined /\ a < b

\* the comparator handed to results.sort: negative, zero or positive
RECURSIVE OrderBy_compareFrom(_, _, _, _, _)
OrderBy_compareFrom(keyMakers, keyLists, a, b, i) ==
    IF i > Len(keyMakers) THEN a.index - b.index
    ELSE LET aKeys == keyLists[a.index + 1]
             bKeys == keyLists[b.index + 1]
             invert == keyMakers[i].descending
         IN  IF OrderBy_less(aKeys[i], bKeys[i]) THEN (IF invert THEN 1 ELSE 0 - 1)
             ELSE IF OrderBy_less(bKeys[i], aKeys[i]) THEN (IF invert THEN 0 - 1 ELSE 1)
             ELSE OrderBy_compareFrom(keyMakers, keyLists, a, b, i + 1)

\* a comparator that ignores the direction of every key (C7 tells it apart)
OrderBy_compare_ascending(keyMakers, keyLists, a, b) ==
    OrderBy_compareFrom([i \in 1..Len(keyMakers) |-> [keyMakers[i] EXCEPT !.descending = FALSE]],
                        keyLists, a, b, 1)

OrderBy_compare(keyMakers, keyLists, a, b) ==
    OrderBy_compareFrom(keyMakers, keyLists, a, b, 1)

\* Array.prototype.sort with that comparator.  On keys that are all numbers
\* the comparator is a total order (the index breaks every tie) and every
\* sort algorithm produces the one arrangement; with an undefined key it is
\* not, and the arrangement is the one the engine's algorithm makes.  The
\* engine sorts an array of fewer than 64 elements by taking the run the
\* array starts with (reversed when it descends) and inserting every later
\* element into it by binary search.

\* the length of the run results starts with, results[idx] being the next
\* element to compare with the one before it
RECURSIVE OrderBy_run(_, _, _, _, _)
OrderBy_run(keyMakers, keyLists, results, idx, isDescending) ==
    IF idx > Len(results) THEN Len(results)
    ELSE IF (OrderBy_compare(keyMakers, keyLists, results[idx], results[idx - 1]) < 0)
                /= isDescending
         THEN idx - 1
         ELSE OrderBy_run(keyMakers, keyLists, results, idx + 1, isDescending)

\* where the pivot goes among sorted[left + 1 .. right]: the number of
\* elements it is put after
RECURSIVE OrderBy_search(_, _, _, _, _, _)
OrderBy_search(keyMakers, keyLists, sorted, pivot, left, right) ==
    IF left >= right THEN left
    ELSE LET mid == left + ((right - left) \div 2)
         IN  IF OrderBy_compare(keyMakers, keyLists, pivot, sorted[mid + 1]) < 0
             THEN OrderBy_search(keyMakers, keyLists, sorted, pivot, left, mid)
             ELSE OrderBy_search(keyMakers, keyLists, sorted, pivot, mid + 1, right)

\* the elements after the first start ones inserted, one after the other,
\* among those before them
RECURSIVE OrderBy_insert(_, _, _, _)
OrderBy_insert(keyMakers, keyLists, results, start) ==
    IF start >= Len(results) THEN results
    ELSE LET pivot == results[start + 1]
             left == OrderBy_search(keyMakers, keyLists, results, pivot, 0, start)
         IN  OrderBy_insert(keyMakers, keyLists,
                            SubSeq(results, 1, left) \o <<pivot>>
                                \o SubSeq(results, left + 1, start)
                                \o SubSeq(results, start + 2, Len(results)),
                            start + 1)

OrderBy_reversed(xs) == [i \in 1..Len(xs) |-> xs[Len(xs) + 1 - i]]

OrderBy_sort(keyMakers, keyLists, results) ==
    IF Len(results) < 2 THEN results
    ELSE LET isDescending == OrderBy_compare(keyMakers, keyLists, results[2], results[1]) < 0
             run == OrderBy_run(keyMakers, keyLists, results, 3, isDescending)
         IN  OrderBy_insert(keyMakers, keyLists,
                            IF isDescending
                            THEN OrderBy_reversed(SubSeq(results, 1, run))
                                     \o SubSeq(results, run + 1, Len(results))
                            ELSE results,
                            run)

\* the loop body shared by both variants: compute the keys of one element
OrderBy_collect(keyMakers, acc, value) ==
    [keyLists |-> Append(acc.keyLists, OrderBy_keyList(keyMakers, value)),
     results |-> Append(acc.results, [index |-> acc.index, value |-> value]),
     index |-> acc.index + 1]

OrderBy_empty == [keyLists |-> <<>>, results |-> <<>>, index |-> 0]

(***************************************************************************)
(* ThruSource transformers (reverse, takeLast).                            *)
(***************************************************************************)
Reverse(s) == [n \in 1..Len(s) |-> s[Len(s) + 1 - n]]

\* values.slice(-count)
SliceLast(s, count) == SubSeq(s, Max(Len(s) - count, 0) + 1, Len(s))

\* values with the elements at indices i and pick (from 0) exchanged
Exchanged(values, i, pick) ==
    [values EXCEPT ![i + 1] = values[pick + 1], ![pick + 1] = values[i + 1]]

\* Math.floor(Math.random() * m) is any of 0 .. m - 1: call number i of a
\* traversal (from 0) takes its outcome from random[i + 1]
Random(random, i, m) == random[i + 1] % m

\* the loop of sample's transformer, had it copied values[pick] to
\* values[i] without putting values[i] in its place
RECURSIVE Query_sample_loop_copied(_, _, _, _)
Query_sample_loop_copied(values, nSamples, i, random) ==
    IF i >= nSamples THEN values
    ELSE Query_sample_loop_copied(
             [values EXCEPT ![i + 1] = values[i + Random(random, i, Len(values) - i) + 1]],
             nSamples, i + 1, random)

\* for (let i = 0, len = values.length; i < nSamples; ++i) ...
RECURSIVE Query_sample_loop(_, _, _, _)
Query_sample_loop(values, nSamples, i, random) ==
    IF i >= nSamples THEN values
    ELSE Query_sample_loop(Exchanged(values, i, i + Random(random, i, Len(values) - i)),
                           nSamples, i + 1, random)

\* the transformer of sample(count); values.length = nSamples cuts the array
Query_sample_transformer(count, values, random) ==
    SubSeq(Query_sample_loop(values, Min(Max(count, 0), Len(values)), 0, random),
           1, Min(Max(count, 0), Len(values)))

\* the loop of shuffle's transformer:
\*   for (let i = 0, len = values.length - 1; i < len; ++i) {
\*     const pick = i + Math.floor(Math.random() * (len - i)); ... exchange ... }
RECURSIVE Query_shuffle_loop(_, _, _, _)
Query_shuffle_loop(values, len, i, random) ==
    IF i >= len THEN values
    ELSE Query_shuffle_loop(Exchanged(values, i, i + Random(random, i, len - i)),
                            len, i + 1, random)

\* the transformer of shuffle()
Query_shuffle_transformer(values, random) ==
    Query_shuffle_loop(values, Len(values) - 1, 0, random)

Transformers == {"reverse", "takeLast", "sample", "shuffle"}

\* random: the outcomes the random number generator will have
Transform(f, count, values, random) ==
    CASE f = "reverse"  -> Reverse(values)
      [] f = "takeLast" -> IF count > 0 THEN SliceLast(values, count) ELSE <<>>
      [] f = "sample"   -> Query_sample_transformer(count, values, random)
      [] f = "shuffle"  -> Query_shuffle_transformer(values, random)
      [] OTHER          -> values

(***************************************************************************)
(* Push traversal.  The iteratee handed down a chain of forEach calls is a *)
(* list k of frames: the head is the callback of the innermost stage, the  *)
(* last the consumer's.  Call(k, v, w) is iteratee(v): it returns the      *)
(* continuation flag, the frames with their closures' variables updated,   *)
(* and the world.                                                          *)
(***************************************************************************)
Ret(b, k, w) == [ret |-> b, k |-> k, w |-> w]

\* call the rest of the chain below frame fr
Down(fr, rest, v, w) == [Call(rest, v, w) EXCEPT !.k = <<fr>> \o @]


\* the caller's iteratee of a push traversal: it returns false on its
\* stopAt-th call (stopAt = 0: never) and on any call after that
Consumer(stopAt) == [t |-> "consumer", got |-> <<>>, stopAt |-> stopAt]

Consumer_callback(fr, v, w) ==
    LET got == Append(fr.got, v)
    IN  Ret(~(fr.stopAt > 0 /\ Len(got) >= fr.stopAt),
            <<[fr EXCEPT !.got = got]>>, Emit(w, Ev("out", "", Len(got), v, <<>>)))

IntersperseSource_callback(fr, rest, v, w) ==
    LET r1 == IF ~fr.firstElement THEN Call(rest, fr.v, w) ELSE Ret(TRUE, rest, w)
    IN  IF ~r1.ret THEN Ret(FALSE, <<fr>> \o r1.k, r1.w)
        ELSE LET r2 == Call(r1.k, v, r1.w)
             IN  IF ~r2.ret THEN Ret(FALSE, <<fr>> \o r2.k, r2.w)
                 ELSE Ret(TRUE, <<[fr EXCEPT !.firstElement = FALSE]>> \o r2.k, r2.w)

\* the callback, had it waited for lag to fall below 0
FatMapSource_callback_late(fr, rest, v, w) ==
    LET ch == ChungusSource_feed(fr.chungus, v)
        fr2 == [fr EXCEPT !.chungus = ch, !.lag = fr.lag - 1]
    IN  IF fr2.lag < 0 THEN Down(fr2, rest, WinSel(fr.f, ch), CallWindow(fr.f, ch, w))
        ELSE Ret(TRUE, <<fr2>> \o rest, w)

FatMapSource_callback(fr, rest, v, w) ==
    LET ch == ChungusSource_feed(fr.chungus, v)
        fr2 == [fr EXCEPT !.chungus = ch, !.lag = fr.lag - 1]
    IN  IF fr2.lag <= 0 THEN Down(fr2, rest, WinSel(fr.f, ch), CallWindow(fr.f, ch, w))
        ELSE Ret(TRUE, <<fr2>> \o rest, w)

\* a skipLast that holds back one element more than asked (C15 tells it
\* apart)
SkipLastSource_callback_late(fr, rest, v, w) ==
    LET r == IF fr.skipsLeft < 0 THEN Call(rest, fr.buffer[fr.ptr], w) ELSE Ret(TRUE, rest, w)
        fr1 == [fr EXCEPT !.skipsLeft = fr.skipsLeft - 1]
    IN  IF ~r.ret THEN Ret(FALSE, <<fr1>> \o r.k, r.w)
        ELSE Ret(TRUE, <<[fr1 EXCEPT !.buffer[fr.ptr] = v,
                                     !.ptr = SkipLast_nextPtr(fr.ptr, fr.n)]>> \o r.k, r.w)

SkipLastSource_callback(fr, rest, v, w) ==
    LET r == IF fr.skipsLeft <= 0 THEN Call(rest, fr.buffer[fr.ptr], w) ELSE Ret(TRUE, rest, w)
        fr1 == [fr EXCEPT !.skipsLeft = fr.skipsLeft - 1]
    IN  IF ~r.ret THEN Ret(FALSE, <<fr1>> \o r.k, r.w)
        ELSE Ret(TRUE, <<[fr1 EXCEPT !.buffer[fr.ptr] = v,
                                     !.ptr = SkipLast_nextPtr(fr.ptr, fr.n)]>> \o r.k, r.w)

SkipWhileSource_callback(fr, rest, v, w) ==
    \* if (!onTheTake && !this.predicate(value)) onTheTake = true;
    \* return onTheTake ? iteratee(value) : false;
    LET asked == ~fr.onTheTake
        w2 == IF asked THEN Emit(w, Ev("pred", fr.p, 0, v, <<>>)) ELSE w
        fr2 == [fr EXCEPT !.onTheTake = fr.onTheTake \/ (asked /\ ~Pred(fr.p, v))]
    IN  IF fr2.onTheTake THEN Down(fr2, rest, v, w2) ELSE Ret(FALSE, <<fr2>> \o rest, w2)

\* a zip that goes on through the left source after the right one has
\* ended (C14 tells it apart)
ZipSource_callback_goes_on(fr, rest, v, w) ==
    LET result == IterNext(fr.right, fr.iter, w)
        fr2 == [fr EXCEPT !.iter = result.cur]
    IN  IF result.done THEN Ret(TRUE, <<fr2>> \o rest, result.w)
        ELSE Down(fr2, rest, ZipSel(fr.f, v, result.val),
                  Emit(result.w, Ev("zip", fr.f, v, result.val, <<>>)))

ZipSource_callback(fr, rest, v, w) ==
    LET result == IterNext(fr.right, fr.iter, w)
        fr2 == [fr EXCEPT !.iter = result.cur]
    IN  IF result.done THEN Ret(FALSE, <<fr2>> \o rest, result.w)
        ELSE Down(fr2, rest, ZipSel(fr.f, v, result.val),
                  Emit(result.w, Ev("zip", fr.f, v, result.val, <<>>)))

\* arrayOf's iteratee: values.push(value); return true
arrayOf_callback(fr, rest, v, w) == Ret(TRUE, <<[fr EXCEPT !.values = Append(@, v)]>>, w)

\* computeResults' iteratee: the keys of one element, once per key maker;
\* nothing is pushed when a key selector throws
OrderBySource_callback(fr, rest, v, w) ==
    IF OrderBy_keyCalls(fr.keyMakers, v, w).err /= ""
    THEN Ret(FALSE, <<fr>>, OrderBy_keyCalls(fr.keyMakers, v, w))
    ELSE Ret(TRUE, <<[fr EXCEPT !.acc = OrderBy_collect(fr.keyMakers, @, v)]>>,
             OrderBy_keyCalls(fr.keyMakers, v, w))

\* Query.forEach's iteratee: it => { iteratee(it); return true; }
Query_callback(fr, rest, v, w) == [Down(fr, rest, v, w) EXCEPT !.ret = TRUE]

\* ThruSource.forEach's iteratee: value => iteratee(value)
ThruSource_callback(fr, rest, v, w) == Down(fr, rest, v, w)

\* a distinct that remembers the elements it has seen rather than their
\* keys (C12 tells it apart)
DistinctSource_callback_values(fr, rest, v, w) ==
    LET w2 == Emit(w, Ev("key", fr.f, 1, v, <<>>))
    IN  IF v \notin fr.foundKeys
        THEN Down([fr EXCEPT !.foundKeys = @ \cup {v}], rest, v, w2)
        ELSE Ret(TRUE, <<fr>> \o rest, w2)

\* the callback, had foundKeys been a field of the DistinctSource (cell 0 of
\* the heap) and not a constant of forEach
DistinctSource_callback_field(fr, rest, v, w) ==
    LET key == Sel(fr.f, v)
        found == {w.memo[0].vals[i] : i \in 1..Len(w.memo[0].vals)}
        w2 == Emit(w, Ev("key", fr.f, 1, v, <<>>))
    IN  IF key \notin found
        THEN Down(fr, rest, v, [w2 EXCEPT !.memo[0].vals = Append(@, key)])
        ELSE Ret(TRUE, <<fr>> \o rest, w2)

DistinctSource_callback(fr, rest, v, w) ==
    LET key == Sel(fr.f, v)
        w2 == Emit(w, Ev("key", fr.f, 1, v, <<>>))
    IN  IF ~Callable(fr.f) THEN Ret(FALSE, <<fr>> \o rest, Throw(w, "TypeError"))
        ELSE IF key \notin fr.foundKeys
        THEN Down([fr EXCEPT !.foundKeys = @ \cup {key}], rest, v, w2)
        ELSE Ret(TRUE, <<fr>> \o rest, w2)

\* a select that hands the element on as it came (C11 tells it apart)
SelectSource_callback_unmapped(fr, rest, v, w) ==
    Down(fr, rest, v, Emit(w, Ev("sel", fr.f, 0, v, <<>>)))

SelectSource_callback(fr, rest, v, w) ==
    Down(fr, rest, Sel_groupJoin(fr.f, v), Emit(w, Ev("sel", fr.f, 0, v, <<>>)))

SelectManySource_callback(fr, rest, v, w) ==
    [iterateOver(sourceOf(ManySel(fr.f, v)), rest, Emit(w, Ev("sel", fr.f, 0, v, <<>>)))
        EXCEPT !.k = <<fr>> \o @]

SkipSource_callback(fr, rest, v, w) ==
    IF fr.skipsLeft <= 0 THEN Down([fr EXCEPT !.skipsLeft = @ - 1], rest, v, w)
    ELSE Ret(TRUE, <<[fr EXCEPT !.skipsLeft = @ - 1]>> \o rest, w)

\* a take whose callback hands on one element more than its count (C39
\* tells it apart)
TakeSource_callback_more(fr, rest, v, w) ==
    IF fr.takesLeft >= 0 THEN Down([fr EXCEPT !.takesLeft = @ - 1], rest, v, w)
    ELSE Ret(FALSE, <<[fr EXCEPT !.takesLeft = @ - 1]>> \o rest, w)

TakeSource_callback(fr, rest, v, w) ==
    IF fr.takesLeft > 0 THEN Down([fr EXCEPT !.takesLeft = @ - 1], rest, v, w)
    ELSE Ret(FALSE, <<[fr EXCEPT !.takesLeft = @ - 1]>> \o rest, w)

TakeWhileSource_callback(fr, rest, v, w) ==
    LET w2 == Emit(w, Ev("pred", fr.p, 0, v, <<>>))
    IN  IF ~Pred(fr.p, v) THEN Ret(FALSE, <<fr>> \o rest, w2) ELSE Down(fr, rest, v, w2)

\* a where whose callback hands the predicate's verdict back to the source,
\* ending the traversal at the first rejected element (C10 tells it apart)
WhereSource_callback_stops(fr, rest, v, w) ==
    LET w2 == Emit(w, Ev("pred", fr.p, 0, v, <<>>))
    IN  IF Pred(fr.p, v) THEN Down(fr, rest, v, w2) ELSE Ret(FALSE, <<fr>> \o rest, w2)

\* the callback, had it caught what the predicate throws and dropped the
\* element
WhereSource_callback_catches(fr, rest, v, w) ==
    LET w2 == Emit(w, Ev("pred", fr.p, 0, v, <<>>))
    IN  IF w2.err /= "" THEN Ret(TRUE, <<fr>> \o rest, [w2 EXCEPT !.err = ""])
        ELSE IF Pred(fr.p, v) THEN Down(fr, rest, v, w2)
        ELSE Ret(TRUE, <<fr>> \o rest, w2)

WhereSource_callback(fr, rest, v, w) ==
    LET w2 == Emit(w, Ev("pred", fr.p, 0, v, <<>>))
    IN  IF Pred(fr.p, v) THEN Down(fr, rest, v, w2) ELSE Ret(TRUE, <<fr>> \o rest, w2)

WithoutSource_callback(fr, rest, v, w) ==
    IF v \notin fr.vs THEN Down(fr, rest, v, w) ELSE Ret(TRUE, <<fr>> \o rest, w)

\* the value of the expression count++ (count itself becomes count + 1, in
\* a variable that is not read again)
PostIncrement(count) == count

\* counts and the world after the body of the loop of Query.countBy has run
\* on value:
\*   const key = keySelector(value); let count = counts.get(key);
\*   if (count === undefined) count = 0; counts.set(key, count++);
\* the Map is a function from its keys to their values; a key selector that
\* throws leaves it as it was
Query_countBy_body(counts, keySelector, value, w) ==
    LET key == Sel(keySelector, value)
        count == IF key \in DOMAIN counts THEN counts[key] ELSE 0
        w2 == Emit(w, Ev("key", keySelector, 1, value, <<>>))
    IN  [counts |-> IF w2.err /= "" THEN counts
                    ELSE [k \in DOMAIN counts \cup {key} |->
                             IF k = key THEN PostIncrement(count) ELSE counts[k]],
         w |-> w2]

\* the iteratee of Query.countBy (push-capable variant): it returns true
\* unless the key selector throws
Query_countBy_callback(fr, v, w) ==
    Ret(Query_countBy_body(fr.counts, fr.f, v, w).w.err = "",
        <<[fr EXCEPT !.counts = Query_countBy_body(@, fr.f, v, w).counts]>>,
        Query_countBy_body(fr.counts, fr.f, v, w).w)

\* the iteratee of Query.all: matched = predicate(value); return matched;
Query_all_callback(fr, v, w) ==
    Ret(Pred(fr.p, v), <<[fr EXCEPT !.matched = Pred(fr.p, v)]>>,
        Emit(w, Ev("test", fr.p, 0, v, <<>>)))

\* the iteratee of Query.any: if (predicate(value)) foundIt = true; return !foundIt;
Query_any_callback(fr, v, w) ==
    Ret(~(fr.foundIt \/ Pred(fr.p, v)), <<[fr EXCEPT !.foundIt = @ \/ Pred(fr.p, v)]>>,
        Emit(w, Ev("test", fr.p, 0, v, <<>>)))

\* the iteratee of Query.first: if (predicate(value)) { result = value; return false; } return true;
Query_first_callback(fr, v, w) ==
    Ret(~Pred(fr.p, v), <<[fr EXCEPT !.result = IF Pred(fr.p, v) THEN v ELSE @]>>,
        Emit(w, Ev("test", fr.p, 0, v, <<>>)))

\* the iteratee of Query.elementAt: element = value; return index !== position;
Query_elementAt_callback(fr, v, w) ==
    Ret(fr.index /= fr.position, <<[fr EXCEPT !.element = v]>>, w)

\* iteratee(v), by the kind of the innermost callback
Call_iteratee(k, v, w) ==
    CASE k[1].t = "consumer" -> Consumer_callback(Head(k), v, w)
      [] k[1].t = "all" -> Query_all_callback(Head(k), v, w)
      [] k[1].t = "any" -> Query_any_callback(Head(k), v, w)
      [] k[1].t = "first" -> Query_first_callback(Head(k), v, w)
      [] k[1].t = "elementAt" -> Query_elementAt_callback(Head(k), v, w)
      [] k[1].t = "countBy" -> Query_countBy_callback(Head(k), v, w)
      [] k[1].t = "arrayOf" -> arrayOf_callback(Head(k), Tail(k), v, w)
      [] k[1].t = "orderBy" -> OrderBySource_callback(Head(k), Tail(k), v, w)
      [] k[1].t = "query" -> Query_callback(Head(k), Tail(k), v, w)
      [] k[1].t = "thru" -> ThruSource_callback(Head(k), Tail(k), v, w)
      [] k[1].t = "distinct" -> DistinctSource_callback(Head(k), Tail(k), v, w)
      [] k[1].t = "fatMap" -> FatMapSource_callback(Head(k), Tail(k), v, w)
      [] k[1].t = "intersperse" -> IntersperseSource_callback(Head(k), Tail(k), v, w)
      [] k[1].t = "select" -> SelectSource_callback(Head(k), Tail(k), v, w)
      [] k[1].t = "selectMany" -> SelectManySource_callback(Head(k), Tail(k), v, w)
      [] k[1].t = "skip" -> SkipSource_callback(Head(k), Tail(k), v, w)
      [] k[1].t = "skipLast" -> SkipLastSource_callback(Head(k), Tail(k), v, w)
      [] k[1].t = "skipWhile" -> SkipWhileSource_callback(Head(k), Tail(k), v, w)
      [] k[1].t = "take" -> TakeSource_callback(Head(k), Tail(k), v, w)
      [] k[1].t = "takeWhile" -> TakeWhileSource_callback(Head(k), Tail(k), v, w)
      [] k[1].t = "where" -> WhereSource_callback(Head(k), Tail(k), v, w)
      [] k[1].t = "without" -> WithoutSource_callback(Head(k), Tail(k), v, w)
      [] k[1].t = "zip" -> ZipSource_callback(Head(k), Tail(k), v, w)

(***************************************************************************)
(* forEach of every source class (push variant).                           *)
(***************************************************************************)
\* iterateOver(this.source, frame-callback): the stage's callback is pushed
\* on the chain for the upstream traversal and popped afterwards
Through(node, fr, k, w) ==
    LET r == iterateOver(node.src, <<fr>> \o k, w)
    IN  [ret |-> r.ret, k |-> Tail(r.k), w |-> r.w, fr |-> Head(r.k)]

RECURSIVE ArrayLikeSource_forEach(_, _, _, _)
ArrayLikeSource_forEach(node, i, k, w) ==
    IF i >= Len(node.xs) THEN Ret(TRUE, k, w)
    ELSE LET r == Call(k, node.xs[i + 1], Emit(w, Ev("read", node.name, i, node.xs[i + 1], <<>>)))
         IN  IF ~r.ret THEN Ret(FALSE, r.k, r.w)
             ELSE ArrayLikeSource_forEach(node, i + 1, r.k, r.w)

RECURSIVE ConcatSource_forEach(_, _, _, _)
ConcatSource_forEach(node, i, k, w) ==
    IF i > Len(node.srcs) THEN Ret(TRUE, k, w)
    ELSE LET r == iterateOver(node.srcs[i], k, w)
         IN  IF ~r.ret THEN Ret(FALSE, r.k, r.w)
             ELSE ConcatSource_forEach(node, i + 1, r.k, r.w)

\* while (chungus.advance()) { if (!iteratee(this.selector(chungus))) return false; }
RECURSIVE FatMap_drain(_, _, _, _)
FatMap_drain(f, chungus, k, w) ==
    LET ch == ChungusSource_advance(chungus)
    IN  IF ~ChungusSource_advances(chungus) THEN Ret(TRUE, k, w)
        ELSE LET r == Call(k, WinSel(f, ch), CallWindow(f, ch, w))
             IN  IF ~r.ret THEN Ret(FALSE, r.k, r.w)
                 ELSE FatMap_drain(f, ch, r.k, r.w)

\* forEach without the loop that drains the right arm
FatMapSource_forEach_undrained(node, k, w) ==
    LET r == Through(node, [t |-> "fatMap", f |-> node.f,
                            chungus |-> ChungusSource(node.n), lag |-> node.n + 1], k, w)
    IN  Ret(r.ret, r.k, r.w)

FatMapSource_forEach(node, k, w) ==
    LET r == Through(node, [t |-> "fatMap", f |-> node.f,
                            chungus |-> ChungusSource(node.n), lag |-> node.n + 1], k, w)
        keepGoing == r.ret
    IN  IF ChungusSource_throws(ChungusSource(node.n))
        THEN Ret(FALSE, k, Throw(w, ChungusSource(node.n).throws))
        ELSE IF ~keepGoing THEN Ret(FALSE, r.k, r.w)
        ELSE FatMap_drain(node.f, r.fr.chungus, r.k, r.w)

\* arrayOf(source)
arrayOf(source, w) ==
    LET r == iterateOver(source, <<[t |-> "arrayOf", values |-> <<>>]>>, w)
    IN  [values |-> r.k[1].values, w |-> r.w]

\* OrderBySource.computeResults (push variant)
OrderBySource_computeResults(node, w) ==
    LET r == iterateOver(node.src, <<[t |-> "orderBy", keyMakers |-> node.keyMakers,
                                      acc |-> OrderBy_empty]>>, w)
        acc == r.k[1].acc
    IN  [results |-> IF r.w.err /= "" THEN <<>>
                     ELSE OrderBy_sort(node.keyMakers, acc.keyLists, acc.results),
         w |-> r.w]

RECURSIVE OrderBy_deliver(_, _, _, _)
OrderBy_deliver(results, i, k, w) ==
    IF i >= Len(results) THEN Ret(TRUE, k, w)
    ELSE LET r == Call(k, results[i + 1].value, w)
         IN  IF ~r.ret THEN Ret(FALSE, r.k, r.w)
             ELSE OrderBy_deliver(results, i + 1, r.k, r.w)

OrderBySource_forEach(node, k, w) ==
    LET c == OrderBySource_computeResults(node, w)
    IN  OrderBy_deliver(c.results, 0, k, c.w)

ThruSource_forEach(node, k, w) ==
    LET old == arrayOf(node.src, w)
        newValues == Transform(node.f, node.n, old.values, old.w.memo[0].vals)
        r == iterateOver(sourceOf([kind |-> "rawArray", xs |-> newValues, name |-> "thru"]),
                         <<[t |-> "thru"]>> \o k, old.w)
    IN  Ret(r.ret, Tail(r.k), r.w)

\* Query.forEach(iteratee): the iteratee's result is dropped
Query_forEach(node, k, w) ==
    [iterateOver(node.src, <<[t |-> "query"]>> \o k, w) EXCEPT !.k = Tail(@)]

Frame(node) ==
    LET kind == node.kind
    IN  CASE kind = "distinct" -> [t |-> kind, f |-> node.f, foundKeys |-> {}]
          [] kind = "intersperse" -> [t |-> kind, v |-> node.v, firstElement |-> TRUE]
          [] kind = "select" -> [t |-> kind, f |-> node.f]
          [] kind = "selectMany" -> [t |-> kind, f |-> node.f]
          [] kind = "skip" -> [t |-> kind, skipsLeft |-> node.n]
          [] kind = "skipLast" -> [t |-> kind, n |-> node.n, buffer |-> SkipLast_buffer(node.n),
                                   ptr |-> 0, skipsLeft |-> node.n]
          [] kind = "skipWhile" -> [t |-> kind, p |-> node.p, onTheTake |-> FALSE]
          [] kind = "take" -> [t |-> kind, takesLeft |-> node.n]
          [] kind = "takeWhile" -> [t |-> kind, p |-> node.p]
          [] kind = "where" -> [t |-> kind, p |-> node.p]
          [] kind = "without" -> [t |-> kind, vs |-> node.vs]

SkipLastSource_forEach(node, k, w) ==
    IF node.n < 0
    THEN \* new Array(this.count): Invalid array length
         Ret(FALSE, k, Throw(w, "RangeError"))
    ELSE [iterateOver(node.src, <<Frame(node)>> \o k, w) EXCEPT !.k = Tail(@)]

ZipSource_forEach(node, k, w) ==
    LET o == Open(node.right, w)
        r == Through(node, [t |-> "zip", f |-> node.f, right |-> node.right, iter |-> o.cur],
                     k, o.w)
    IN  Ret(r.ret, r.k, r.w)

Source_forEach(node, k, w) ==
    CASE node.kind = "array" -> ArrayLikeSource_forEach(node, 0, k, w)
      [] node.kind = "concat" -> ConcatSource_forEach(node, 1, k, w)
      [] node.kind = "fatMap" -> FatMapSource_forEach(node, k, w)
      [] node.kind = "orderBy" -> OrderBySource_forEach(node, k, w)
      [] node.kind = "thru" -> ThruSource_forEach(node, k, w)
      [] node.kind = "query" -> Query_forEach(node, k, w)
      [] node.kind = "skipLast" -> SkipLastSource_forEach(node, k, w)
      [] node.kind = "zip" -> ZipSource_forEach(node, k, w)
      [] OTHER -> [iterateOver(node.src, <<Frame(node)>> \o k, w) EXCEPT !.k = Tail(@)]

\* for (const value of source) { if (!iteratee(value)) return false; } return true;
RECURSIVE iterateOver_forOf(_, _, _, _)
iterateOver_forOf(source, c, k, w) ==
    LET n == IterNext(source, c, w)
    IN  IF n.done THEN Ret(TRUE, k, n.w)
        ELSE LET r == Call(k, n.val, n.w)
             IN  IF ~r.ret THEN Ret(FALSE, r.k, r.w)
                 ELSE iterateOver_forOf(source, n.cur, r.k, r.w)

\* source.forEach !== undefined: every source class and Query define it; a
\* generator object does not
HasForEach(source) == source.kind \notin {"iter", "rawArray"}

iterateOver_function(source, k, w) ==
    IF HasForEach(source) THEN Source_forEach(source, k, w)
    ELSE LET o == Open(source, w) IN iterateOver_forOf(source, o.cur, k, o.w)

(***************************************************************************)
(* The materializing iterators, Open and IterNext.                         *)
(***************************************************************************)
\* Array.from(source): open a cursor and run it to the end
RECURSIVE ArrayFrom(_, _, _, _)
ArrayFrom(source, c, acc, w) ==
    LET n == IterNext(source, c, w)
    IN  IF n.done THEN [values |-> acc, w |-> n.w]
        ELSE ArrayFrom(source, n.cur, Append(acc, n.val), n.w)

Array_from(source, w) == LET o == Open(source, w) IN ArrayFrom(source, o.cur, <<>>, o.w)

\* the pull variant's OrderBySource loop: for (const value of this.source)
RECURSIVE OrderBy_pull(_, _, _, _)
OrderBy_pull(node, c, acc, w) ==
    LET n == IterNext(node.src, c, w)
        w2 == OrderBy_keyCalls(node.keyMakers, n.val, n.w)
    IN  IF n.done THEN [acc |-> acc, w |-> n.w]
        ELSE IF w2.err /= "" THEN [acc |-> acc, w |-> w2]
        ELSE OrderBy_pull(node, n.cur, OrderBy_collect(node.keyMakers, acc, n.val), w2)

\* the sorted results, computed at the generator's first next()
OrderBySource_results(node, w) ==
    IF variant = "push" THEN OrderBySource_computeResults(node, w)
    ELSE LET o == Open(node.src, w)
             p == OrderBy_pull(node, o.cur, OrderBy_empty, o.w)
         IN  [results |-> IF p.w.err /= "" THEN <<>>
                          ELSE OrderBy_sort(node.keyMakers, p.acc.keyLists, p.acc.results),
              w |-> p.w]

OrderBySource_iterator(node, c, w) ==
    IF c.pc = "done" THEN Finish(c, w)
    ELSE LET s == IF c.pc = "start"
                  THEN LET m == OrderBySource_results(node, w)
                       IN  [cur |-> [c EXCEPT !.pc = "loop", !.results = m.results], w |-> m.w]
                  ELSE [cur |-> c, w |-> w]
         IN  IF s.cur.i >= Len(s.cur.results) THEN Finish(s.cur, s.w)
             ELSE Yield(s.cur.results[s.cur.i + 1].value, [s.cur EXCEPT !.i = @ + 1], s.w)

\* ThruSource[Symbol.iterator]: not a generator, the upstream is read when
\* the iterator is asked for
ThruSource_iterator(node, w) ==
    LET old == IF variant = "push" THEN arrayOf(node.src, w) ELSE Array_from(node.src, w)
        newValues == Transform(node.f, node.n, old.values, old.w.memo[0].vals)
    IN  [cur |-> [pc |-> "loop", i |-> 0, xs |-> newValues], w |-> old.w]

\* a MemoSource that runs its source again at every traversal (C9 tells it
\* apart)
MemoSource_iterator_again(node, w) ==
    LET a == Array_from(node.src, w)
    IN  [cur |-> [pc |-> "loop", i |-> 0, xs |-> a.values],
         w |-> [a.w EXCEPT !.memo[node.id] = [ran |-> TRUE, vals |-> a.values]]]

\* MemoSource[Symbol.iterator] (pull variant only)
MemoSource_iterator(node, w) ==
    LET first == ~w.memo[node.id].ran
        a == IF first THEN Array_from(node.src, w) ELSE [values |-> w.memo[node.id].vals, w |-> w]
        w2 == IF first /\ a.w.err = ""
              THEN [a.w EXCEPT !.memo[node.id] = [ran |-> TRUE, vals |-> a.values]]
              ELSE a.w
    IN  [cur |-> [pc |-> "loop", i |-> 0, xs |-> w2.memo[node.id].vals], w |-> w2]

InitCursor(node) ==
    LET kind == node.kind
        base == [pc |-> "start", up |-> NoCursor]
    IN  CASE kind \in {"array", "rawArray", "iter"} -> [pc |-> "start", i |-> 0]
          [] kind = "concat" -> [pc |-> "start", i |-> 1, up |-> NoCursor]
          [] kind = "distinct" -> [pc |-> "start", up |-> NoCursor, foundKeys |-> {}]
          [] kind = "fatMap" -> [pc |-> "start", up |-> NoCursor,
                                 chungus |-> ChungusSource(node.n), lag |-> node.n + 1]
          [] kind = "intersperse" -> [pc |-> "start", up |-> NoCursor,
                                      firstElement |-> TRUE, pending |-> undefined]
          [] kind = "orderBy" -> [pc |-> "start", results |-> <<>>, i |-> 0]
          [] kind = "selectMany" -> [pc |-> "start", up |-> NoCursor,
                                     results |-> NoCursor, inner |-> NoCursor]
          [] kind = "skip" -> [pc |-> "start", up |-> NoCursor, skipsLeft |-> node.n]
          [] kind = "skipLast" -> [pc |-> "start", up |-> NoCursor,
                                   buffer |-> SkipLast_buffer(node.n), ptr |-> 0,
                                   skipsLeft |-> node.n]
          [] kind = "skipWhile" -> [pc |-> "start", up |-> NoCursor, onTheTake |-> FALSE]
          [] kind = "take" -> [pc |-> "start", up |-> NoCursor, takesLeft |-> node.n]
          [] kind = "zip" -> [pc |-> "start", up |-> NoCursor, right |-> NoCursor]
          [] OTHER -> base

Source_iterator(node, w) ==
    CASE node.kind = "query" -> Open(node.src, w)
      [] node.kind = "thru" -> ThruSource_iterator(node, w)
      [] node.kind = "memo" -> MemoSource_iterator(node, w)
      [] OTHER -> [cur |-> InitCursor(node), w |-> w]

Source_next(node, c, w) ==
    CASE node.kind \in {"array", "rawArray", "iter"} -> ArrayLikeSource_iterator(node, c, w)
      [] node.kind = "thru" ->
            ArrayLikeSource_iterator([kind |-> "array", xs |-> c.xs, name |-> "thru"], c, w)
      [] node.kind = "memo" ->
            ArrayLikeSource_iterator([kind |-> "array", xs |-> c.xs, name |-> "memo"], c, w)
      [] node.kind = "query" -> IterNext(node.src, c, w)
      [] node.kind = "concat" -> ConcatSource_iterator(node, c, w)
      [] node.kind = "distinct" -> DistinctSource_iterator(node, c, w)
      [] node.kind = "fatMap" -> FatMapSource_iterator(node, c, w)
      [] node.kind = "intersperse" -> IntersperseSource_iterator(node, c, w)
      [] node.kind = "orderBy" -> OrderBySource_iterator(node, c, w)
      [] node.kind = "select" -> SelectSource_iterator(node, c, w)
      [] node.kind = "selectMany" -> SelectManySource_iterator(node, c, w)
      [] node.kind = "skip" -> SkipSource_iterator(node, c, w)
      [] node.kind = "skipLast" -> SkipLastSource_iterator(node, c, w)
      [] node.kind = "skipWhile" -> SkipWhileSource_iterator(node, c, w)
      [] node.kind = "take" -> TakeSource_iterator(node, c, w)
      [] node.kind = "takeWhile" -> TakeWhileSource_iterator(node, c, w)
      [] node.kind = "where" -> WhereSource_iterator(node, c, w)
      [] node.kind = "without" -> WithoutSource_iterator(node, c, w)
      [] node.kind = "zip" -> ZipSource_iterator(node, c, w)

(***************************************************************************)
(* The operations of Query that traverse a pipeline.                       *)
(***************************************************************************)
\* Query.toArray(): Array.from(this.source) / arrayOf(this.source)
Query_toArray(this, w) ==
    IF variant = "push" THEN arrayOf(this.src, w) ELSE Array_from(this.src, w)

\* for (const value of query) { ...; if (n-th value) break; }: the values a
\* pull consumer receives when it stops after limit of them (0: never stops)
RECURSIVE Query_forOf(_, _, _, _, _)
Query_forOf(this, c, acc, limit, w) ==
    LET n == IterNext(this, c, w)
    IN  IF n.done THEN [values |-> acc, w |-> n.w]
        ELSE IF limit > 0 /\ Len(acc) + 1 >= limit
             THEN [values |-> Append(acc, n.val), w |-> n.w]
             ELSE Query_forOf(this, n.cur, Append(acc, n.val), limit, n.w)

Query_iterate(this, limit, w) ==
    LET o == Open(this, w) IN Query_forOf(this, o.cur, <<>>, limit, o.w)

\* a single that returns the last match however many there are (C17 tells
\* it apart)
Query_single_last(this, predicate, w) ==
    LET a == Array_from(this.src, w)
        Holds(v) == Pred(predicate, v)
        matches == SelectSeq(a.values, Holds)
    IN  [values |-> IF matches = <<>> THEN <<undefined>> ELSE <<matches[Len(matches)]>>,
         w |-> a.w]

\* Query.single(predicate), of the pull-only variant: the loop over
\* this.source; values holds what is returned, nothing when it throws
RECURSIVE Query_single_forOf(_, _, _, _, _, _)
Query_single_forOf(source, c, count, lastResult, predicate, w) ==
    LET n == IterNext(source, c, w)
        w2 == Emit(n.w, Ev("pred", predicate, 0, n.val, <<>>))
    IN  IF n.done THEN [values |-> <<lastResult>>, w |-> n.w]
        ELSE IF ~Pred(predicate, n.val)
             THEN Query_single_forOf(source, n.cur, count, lastResult, predicate, w2)
             ELSE IF count + 1 > 1
                  THEN [values |-> <<>>, w |-> Throw(w2, "Error")]
                  ELSE Query_single_forOf(source, n.cur, count + 1, n.val, predicate, w2)

Query_single(this, predicate, w) ==
    LET o == Open(this.src, w)
    IN  Query_single_forOf(this.src, o.cur, 0, undefined, predicate, o.w)

\* Query.all(predicate) of the pull-only variant: the loop over this.source
RECURSIVE Query_all_forOf(_, _, _, _)
Query_all_forOf(source, c, predicate, w) ==
    LET n == IterNext(source, c, w)
        w2 == Emit(n.w, Ev("test", predicate, 0, n.val, <<>>))
    IN  IF n.done THEN [values |-> <<TRUE>>, w |-> n.w]
        ELSE IF ~Pred(predicate, n.val) THEN [values |-> <<FALSE>>, w |-> w2]
        ELSE Query_all_forOf(source, n.cur, predicate, w2)

\* Query.all(predicate): values holds the boolean it returns
Query_all(this, predicate, w) ==
    IF variant = "push"
    THEN LET r == iterateOver(this.src, <<[t |-> "all", p |-> predicate, matched |-> TRUE]>>, w)
         IN  [values |-> <<r.k[1].matched>>, w |-> r.w]
    ELSE LET o == Open(this.src, w)
         IN  Query_all_forOf(this.src, o.cur, predicate, o.w)

\* Query.any(predicate) of the pull-only variant: the loop over this.source
RECURSIVE Query_any_forOf(_, _, _, _)
Query_any_forOf(source, c, predicate, w) ==
    LET n == IterNext(source, c, w)
        w2 == Emit(n.w, Ev("test", predicate, 0, n.val, <<>>))
    IN  IF n.done THEN [values |-> <<FALSE>>, w |-> n.w]
        ELSE IF Pred(predicate, n.val) THEN [values |-> <<TRUE>>, w |-> w2]
        ELSE Query_any_forOf(source, n.cur, predicate, w2)

\* Query.any(predicate): values holds the boolean it returns
Query_any(this, predicate, w) ==
    IF variant = "push"
    THEN LET r == iterateOver(this.src, <<[t |-> "any", p |-> predicate, foundIt |-> FALSE]>>, w)
         IN  [values |-> <<r.k[1].foundIt>>, w |-> r.w]
    ELSE LET o == Open(this.src, w)
         IN  Query_any_forOf(this.src, o.cur, predicate, o.w)

\* Query.first(predicate) of the pull-only variant: the loop over this.source
RECURSIVE Query_first_forOf(_, _, _, _)
Query_first_forOf(source, c, predicate, w) ==
    LET n == IterNext(source, c, w)
        w2 == Emit(n.w, Ev("test", predicate, 0, n.val, <<>>))
    IN  IF n.done THEN [values |-> <<undefined>>, w |-> n.w]
        ELSE IF Pred(predicate, n.val) THEN [values |-> <<n.val>>, w |-> w2]
        ELSE Query_first_forOf(source, n.cur, predicate, w2)

\* Query.first(predicate): values holds what it returns
Query_first(this, predicate, w) ==
    IF variant = "push"
    THEN LET r == iterateOver(this.src, <<[t |-> "first", p |-> predicate, result |-> undefined]>>, w)
         IN  [values |-> <<r.k[1].result>>, w |-> r.w]
    ELSE LET o == Open(this.src, w)
         IN  Query_first_forOf(this.src, o.cur, predicate, o.w)

\* Query.elementAt(position) of the pull-only variant: the loop over
\* this.source, if (index++ === position) return value;
RECURSIVE Query_elementAt_forOf(_, _, _, _, _)
Query_elementAt_forOf(source, c, index, position, w) ==
    LET n == IterNext(source, c, w)
    IN  IF n.done THEN [values |-> <<undefined>>, w |-> n.w]
        ELSE IF index = position THEN [values |-> <<n.val>>, w |-> n.w]
        ELSE Query_elementAt_forOf(source, n.cur, index + 1, position, n.w)

\* Query.elementAt(position): values holds what it returns
Query_elementAt(this, position, w) ==
    IF variant = "push"
    THEN LET r == iterateOver(this.src, <<[t |-> "elementAt", index |-> 0,
                                           position |-> position, element |-> undefined]>>, w)
         IN  [values |-> <<r.k[1].element>>, w |-> r.w]
    ELSE LET o == Open(this.src, w)
         IN  Query_elementAt_forOf(this.src, o.cur, 0, position, o.w)

\* new Map(): no key
NoCounts == [k \in {} |-> 0]

\* Query.countBy(keySelector) of the pull-only variant: the loop over
\* this.source
RECURSIVE Query_countBy_forOf(_, _, _, _, _)
Query_countBy_forOf(source, c, counts, keySelector, w) ==
    LET n == IterNext(source, c, w)
        b == Query_countBy_body(counts, keySelector, n.val, n.w)
    IN  IF n.done THEN [values |-> IF n.w.err = "" THEN <<counts>> ELSE <<>>, w |-> n.w]
        ELSE IF b.w.err /= "" THEN [values |-> <<>>, w |-> b.w]
        ELSE Query_countBy_forOf(source, n.cur, b.counts, keySelector, b.w)

\* Query.countBy(keySelector): values holds the Map it returns
Query_countBy(this, keySelector, w) ==
    IF variant = "push"
    THEN LET r == iterateOver(this.src, <<[t |-> "countBy", f |-> keySelector,
                                           counts |-> NoCounts]>>, w)
         IN  [values |-> IF r.w.err = "" THEN <<r.k[1].counts>> ELSE <<>>, w |-> r.w]
    ELSE LET o == Open(this.src, w)
         IN  Query_countBy_forOf(this.src, o.cur, NoCounts, keySelector, o.w)

\* a terminal of the push variant driving the source with an iteratee that
\* stops at its stopAt-th call: iterateOver(this.source, iteratee)
Query_push(this, stopAt, w) ==
    LET r == iterateOver(this.src, <<Consumer(stopAt)>>, w)
    IN  [values |-> r.k[1].got, ret |-> r.ret, w |-> r.w]

(***************************************************************************)
(* Every request made of a source, an iteratee or a Query is served here:  *)
(* Open, IterNext, iterateOver, Call and Run are requests.                 *)
(***************************************************************************)
\* what a request comes to while an exception is in flight: nothing is
\* opened, yielded or called
Unwound(r) ==
    CASE r.ask = "open" -> [cur |-> NoCursor, w |-> r.w]
      [] r.ask = "next" -> [done |-> TRUE, val |-> undefined, cur |-> r.c, w |-> r.w]
      [] r.ask \in {"iterateOver", "call"} -> Ret(FALSE, r.k, r.w)
      [] OTHER -> [values |-> <<>>, ret |-> FALSE, w |-> r.w]

\* an exception thrown while the request was served leaves through it:
\* next() yields nothing, a traversal or an iteratee does not return true
Thrown_next(res) ==
    [res EXCEPT !.done = @ \/ res.w.err /= "",
                !.val = IF res.w.err = "" THEN @ ELSE undefined]

Thrown_call(res) == [res EXCEPT !.ret = @ /\ res.w.err = ""]

\* a terminal operator that a callback's exception leaves returns nothing
Thrown_return(res) == [res EXCEPT !.values = IF res.w.err = "" THEN @ ELSE <<>>]

Eval(r) ==
    CASE r.w.err /= "" -> Unwound(r)
      [] r.ask = "open" -> Source_iterator(r.node, r.w)
      [] r.ask = "next" -> Thrown_next(Source_next(r.node, r.c, r.w))
      [] r.ask = "iterateOver" -> Thrown_call(iterateOver_function(r.node, r.k, r.w))
      [] r.ask = "call" -> Thrown_call(Call_iteratee(r.k, r.v, r.w))
      [] r.ask = "toArray" -> Query_toArray(r.node, r.w)
      [] r.ask = "iterate" -> Query_iterate(r.node, r.arg, r.w)
      [] r.ask = "push" -> Query_push(r.node, r.arg, r.w)
      [] r.ask = "single" -> Thrown_return(Query_single(r.node, r.arg, r.w))
      [] r.ask = "all" -> Thrown_return(Query_all(r.node, r.arg, r.w))
      [] r.ask = "any" -> Thrown_return(Query_any(r.node, r.arg, r.w))
      [] r.ask = "first" -> Thrown_return(Query_first(r.node, r.arg, r.w))
      [] r.ask = "elementAt" -> Thrown_return(Query_elementAt(r.node, r.arg, r.w))
      [] r.ask = "countBy" -> Thrown_return(Query_countBy(r.node, r.arg, r.w))

\* the caller's query.toArray(), for-of, push traversal or single(predicate)
Run(ask, this, arg, w) == Eval([ask |-> ask, node |-> this, arg |-> arg, w |-> w])

(***************************************************************************)
(* The operators of Query that traverse something when they are called.    *)
(***************************************************************************)
\* new Set(iterable): the values the iterable yields
SetOf(values) == {values[i] : i \in 1..Len(values)}

\* the array (...blacklists) of a call of except
Blacklists(blacklists) == [kind |-> "rawArray", xs |-> blacklists, name |-> "blacklists"]

\* an except that takes its first blacklist only (C21 tells it apart)
Query_except_first(this, blacklists, w) ==
    LET r == Run("iterate", Query_selectMany(from(<<Blacklists(<<blacklists[1]>>)>>), "it"), 0, w)
    IN  [values |-> IF r.w.err /= "" THEN <<>>
                    ELSE <<Query(WithoutSource(this.src, SetOf(r.values)))>>,
         w |-> r.w]

\* Query.except(...blacklists):
\*   const exclusions = new Set(from(blacklists).selectMany(it => it));
\*   return new Query(new WithoutSource(this.source, exclusions));
\* values holds the Query it returns, nothing when a blacklist throws while
\* the Set is made of it; w is the world after the blacklists were read
Query_except(this, blacklists, w) ==
    LET r == Run("iterate", Query_selectMany(from(<<Blacklists(blacklists)>>), "it"), 0, w)
    IN  [values |-> IF r.w.err /= "" THEN <<>>
                    ELSE <<Query(WithoutSource(this.src, SetOf(r.values)))>>,
         w |-> r.w]

(***************************************************************************)
(* The state machine: a caller builds a pipeline from a source, one        *)
(* operator call at a time, and traverses it.                              *)
(*   variant  which build of the library runs                              *)
(*   q        the Query the caller holds                                   *)
(*   ops      the number of operator calls that built q                    *)
(*   hist     what the traversals of q delivered, oldest first             *)
(*   heap     the MemoSource caches                                        *)
(*   budget   the number of traversals the caller makes of one pipeline    *)
(***************************************************************************)
Counts == 0..MaxCount
Windows == 0..MaxWindow
Stops == 0..MaxStop
Directions == {"asc", "desc"}
\* what from, concat and zip are handed besides q: a plain array, or a Query
Others == {RawArray(<<3, 2>>), Query(TakeSource(IterNode(<<4, 5>>), 1))}

Variants == {"pull", "push"}

InitWith(variants, bases, runs) ==
    /\ variant \in variants
    /\ \E b \in bases : q = from(<<b>>)
    /\ ops = 0
    /\ hist = <<>>
    /\ heap = EmptyHeap
    /\ budget = runs

Init == InitWith(Variants, {RawArray(xs) : xs \in Arrays}, 1)

Built(query) ==
    /\ ops < MaxStages
    /\ q' = query
    /\ ops' = ops + 1
    /\ hist' = <<>>
    /\ UNCHANGED <<variant, heap, budget>>

From == Built(from(<<q>>))
FromPair == \E b \in Others : Built(from(<<q, b>>))
Concat == \E b \in Others : Built(Query_concat(q, <<b>>))
Distinct == \E f \in {"id", "half"} : Built(Query_distinct(q, f))
FatMap == \E W \in Windows : Built(Query_fatMap(q, "total", W))
Intersperse == Built(Query_intersperse(q, MaxVal + 5))
Memoize == variant = "pull" /\ Built(Query_memoize(q, ops + 1))
OrderBy == \E d \in Directions : Built(Query_orderBy(q, "mod2", d))
ThenBy ==
    /\ q.src.kind = "orderBy"
    /\ \E d \in Directions : Built(SortQuery_thenBy(q, "half", d))
Reverse_ == Built(Query_reverse(q))
Select == \E f \in {"inc", "half"} : Built(Query_select(q, f))
SelectMany == \E f \in {"dup", "evens"} : Built(Query_selectMany(q, f))
Skip == \E n \in Counts : Built(Query_skip(q, n))
SkipLast == \E n \in Counts : Built(Query_skipLast(q, n))
SkipWhile == \E p \in {"even", "pos"} : Built(Query_skipWhile(q, p))
Take == \E n \in Counts : Built(Query_take(q, n))
TakeLast == \E n \in Counts : Built(Query_takeLast(q, n))
TakeWhile == \E p \in {"even", "pos"} : Built(Query_takeWhile(q, p))
Where == \E p \in {"even", "pos"} : Built(Query_where(q, p))
Without == Built(Query_without(q, {1}))
Zip == \E b \in Others : Built(Query_zip(q, b, "sum"))

Traversed(op, arg, r) ==
    /\ Len(hist) < budget
    /\ hist' = Append(hist, [op |-> op, arg |-> arg, out |-> r.values,
                             ret |-> IF op = "push" THEN r.ret ELSE TRUE,
                             log |-> r.w.log, err |-> r.w.err])
    /\ heap' = r.w.memo
    /\ UNCHANGED <<variant, q, ops, budget>>

\* q.toArray()
ToArray == Traversed("toArray", 0, Run("toArray", q, 0, World(heap)))

\* for (const value of q) ..., left after limit values (0: run to the end)
Iterate ==
    \E limit \in Stops : Traversed("iterate", limit, Run("iterate", q, limit, World(heap)))

\* a push traversal whose iteratee stops at its stopAt-th call (0: never)
Push ==
    /\ variant = "push"
    /\ \E stopAt \in Stops : Traversed("push", stopAt, Run("push", q, stopAt, World(heap)))

\* [...q]: pull iteration to the end
Spread == Traversed("iterate", 0, Run("iterate", q, 0, World(heap)))

\* a push traversal whose iteratee never asks to stop
Each ==
    /\ variant = "push"
    /\ Traversed("push", 0, Run("push", q, 0, World(heap)))

Next ==
    \/ From \/ FromPair \/ Concat \/ Distinct \/ FatMap \/ Intersperse \/ Memoize
    \/ OrderBy \/ ThenBy \/ Reverse_ \/ Select \/ SelectMany \/ Skip \/ SkipLast
    \/ SkipWhile \/ Take \/ TakeLast \/ TakeWhile \/ Where \/ Without \/ Zip
    \/ ToArray \/ Iterate \/ Push

Spec == Init /\ [][Next]_vars

(***************************************************************************)
(* The same caller over an iterable that has no forEach (a generator, a    *)
(* Set): every variant has to pull it.                                     *)
(***************************************************************************)
InitIter == InitWith(Variants, {IterNode(xs) : xs \in Arrays}, 1)
NextIter == Take \/ ToArray \/ Iterate \/ Push
SpecIter == InitIter /\ [][NextIter]_vars

(***************************************************************************)
(* where over arrays and over a take that ends before its array does.      *)
(***************************************************************************)
InitWhere == InitWith(Variants, {RawArray(xs) : xs \in Arrays}, 1)
NextWhere == Where \/ Take \/ ToArray \/ Spread \/ Each
SpecWhere == InitWhere /\ [][NextWhere]_vars

(***************************************************************************)
(* fatMap over longer inputs and wider windows.  Ramp(n) is the array      *)
(* 1, 2, ..., n: each element names its position.                          *)
(***************************************************************************)
MaxFatLen == 5
MaxFatWindow == 2
Ramp(n) == [i \in 1..n |-> i]
InitFat == InitWith(Variants, {RawArray(Ramp(n)) : n \in 0..MaxFatLen}, 1)
FatMapWide == \E W \in 0..MaxFatWindow : Built(Query_fatMap(q, "total", W))
NextFat == FatMapWide \/ ToArray \/ Iterate \/ Push
SpecFat == InitFat /\ [][NextFat]_vars

(***************************************************************************)
(* orderBy and thenBy over elements that tie on their keys.                *)
(***************************************************************************)
MaxKey == 2
MaxSortLen == 3
SortArrays == SeqsUpTo(0..MaxKey, MaxSortLen)
InitSort == InitWith(Variants, {RawArray(xs) : xs \in SortArrays}, 1)
SortBy ==
    \E o \in {<<"half", "asc">>, <<"half", "desc">>, <<"zero", "asc">>} :
        Built(Query_orderBy(q, o[1], o[2]))
SortThenBy ==
    /\ q.src.kind = "orderBy"
    /\ \E d \in Directions : Built(SortQuery_thenBy(q, "mod2", d))
NextSort == SortBy \/ SortThenBy \/ ToArray \/ Spread \/ Each
SpecSort == InitSort /\ [][NextSort]_vars

\* the same sort pipelines, each traversed more than once
BitArrays == SeqsUpTo(0..1, MaxLen)
InitKeys == InitWith(Variants, {RawArray(xs) : xs \in BitArrays}, MaxRuns)
SpecKeys == InitKeys /\ [][NextSort]_vars

(***************************************************************************)
(* memoize (pull-only variants): a memoized pipeline traversed several     *)
(* times, some traversals abandoned early.                                 *)
(***************************************************************************)
InitMemo == InitWith({"pull"}, {RawArray(xs) : xs \in BitArrays}, MaxRuns)
NextMemo == Where \/ Select \/ Memoize \/ ToArray \/ Iterate
SpecMemo == InitMemo /\ [][NextMemo]_vars

\* the last traversal of q, if any
Traversal == hist /= <<>>
Last == hist[Len(hist)]

TypeOK ==
    /\ variant \in {"pull", "push"}
    /\ ops \in 0..MaxStages
    /\ Len(hist) <= budget
    /\ \A n \in 1..Len(hist) : hist[n].op \in {"toArray", "iterate", "push", "single", "group", "kept",
                                              "all", "any", "first", "elementAt", "countBy",
                                              "except"}

(***************************************************************************)
(* What a traversal of a pipeline delivers, as functions of the pipeline.  *)
(***************************************************************************)
Prefix(s, n) == SubSeq(s, 1, Min(n, Len(s)))

\* the values [Symbol.iterator] yields when run to the end
PullSeq(query) == Query_iterate(query, 0, World(heap)).values

\* node or something upstream of it is of one of the kinds
RECURSIVE Has(_, _)
Has(node, kinds) ==
    \/ node.kind \in kinds
    \/ CASE node.kind \in {"array", "rawArray", "iter"} -> FALSE
         [] node.kind = "concat" -> \E i \in 1..Len(node.srcs) : Has(node.srcs[i], kinds)
         [] node.kind = "zip" -> Has(node.src, kinds) \/ Has(node.right, kinds)
         [] OTHER -> Has(node.src, kinds)

\* a pipeline all of whose sources are arrays (no Query, no generator)
OverArrays(node) == ~Has(node, {"query", "iter"})

\* C1: in the push-capable variant, for every kind of stage over a finite
\* input, forEach passes to an iteratee that always returns true exactly the
\* sequence the stage's iterator yields, and to an iteratee that returns
\* false at its N-th call exactly the first N values of that sequence.
C1_PushEqualsPull ==
    (variant = "push" /\ ops <= 1 /\ OverArrays(q.src) /\ Traversal /\ Last.op = "push")
        => Last.out = IF Last.arg = 0 THEN PullSeq(q) ELSE Prefix(PullSeq(q), Last.arg)

AsQuery(node) == IF node.kind = "query" THEN node ELSE Query(node)

\* a traversal that ran to the end: toArray, or a consumer that never stops
Full(t) == t.op = "toArray" \/ t.arg = 0

\* what a source delivers on its own when traversed to the end the way
\* traversal t went (toArray, pull iteration, push)
SeqOf(node, t) ==
    CASE t.op = "toArray" -> Query_toArray(AsQuery(node), World(heap)).values
      [] t.op = "iterate" -> Query_iterate(AsQuery(node), 0, World(heap)).values
      [] t.op = "push" -> Query_push(AsQuery(node), 0, World(heap)).values

\* the elements read from the sources named "src", in the order read
RECURSIVE Reads(_)
Reads(log) ==
    IF log = <<>> THEN <<>>
    ELSE IF Head(log).e = "read" /\ Head(log).f = "src"
         THEN <<Head(log).v>> \o Reads(Tail(log))
         ELSE Reads(Tail(log))

\* C2: in a push traversal, once the consumer's iteratee has returned false
\* (at its N-th call) it is not invoked again: it is called at most N times.
C2_NoCallAfterStop ==
    (variant = "push" /\ Traversal /\ Last.op = "push" /\ Last.arg > 0)
        => Len(Last.out) <= Last.arg

\* C3: from(a, b) and a.concat(b) deliver, under pull iteration and under
\* toArray(), all the elements of a followed by all the elements of b.
C3_ConcatAppends ==
    (Traversal /\ Full(Last) /\ Last.op \in {"toArray", "iterate"}
       /\ q.src.kind = "concat" /\ Len(q.src.srcs) = 2)
        => Last.out = SeqOf(q.src.srcs[1], Last) \o SeqOf(q.src.srcs[2], Last)

\* C4: fully consuming take(n) over a pulled source that holds more than n
\* elements (n >= 1) requests exactly n elements from that source.
C4_TakeRequestsExactly ==
    (Traversal /\ Last.op = "toArray" /\ ops = 1 /\ q.src.kind = "take"
       /\ q.src.n >= 1 /\ Len(SeqOf(q.src.src, Last)) > q.src.n)
        => Len(Reads(Last.log)) = q.src.n

\* the invocations of the fatMap selector, in order
Wins(log) == LET IsWin(ev) == ev.e = "win" IN SelectSeq(log, IsWin)

\* C5: over an input xs of length n, fatMap with window size W invokes its
\* selector exactly n times; the i-th invocation sees the window
\* xs[max(1, i - W)] .. xs[min(n, i + W)] in input order, and value = xs[i].
C5_Windows ==
    (Traversal /\ Full(Last) /\ ops = 1 /\ q.src.kind = "fatMap")
        => LET xs == SeqOf(q.src.src, Last)
               n == Len(xs)
               W == q.src.n
               wins == Wins(Last.log)
           IN  /\ Len(wins) = n
               /\ Len(Last.out) = n
               /\ \A i \in 1..n :
                    /\ wins[i].v = xs[i]
                    /\ wins[i].ws = SubSeq(xs, Max(1, i - W), Min(n, i + W))
                    /\ Last.out[i] = SumSeq(SubSeq(xs, Max(1, i - W), Min(n, i + W)))

\* a push traversal of the longest input under the widest window
C5_Witness ==
    /\ Traversal /\ Full(Last) /\ ops = 1 /\ q.src.kind = "fatMap"
    /\ q.src.n = MaxFatWindow
    /\ Len(Wins(Last.log)) = MaxFatLen
    /\ Last.op = "push"

\* C6: whenever the upstream of fatMap has delivered its last element and
\* the consumer never asks to stop, the trailing windows are produced too:
\* a full traversal yields one window per element the upstream delivers.
C6_TrailingWindows ==
    (Traversal /\ Full(Last) /\ q.src.kind = "fatMap")
        => Len(Last.out) = Len(SeqOf(q.src.src, Last))

\* the array the pipeline was started from
RECURSIVE Root(_)
Root(node) ==
    CASE node.kind \in {"array", "rawArray", "iter"} -> node.xs
      [] node.kind = "concat" -> Root(node.srcs[1])
      [] OTHER -> Root(node.src)

\* the Query the caller started from
Base == from(<<RawArray(Root(q))>>)

SortKeys == {"mod2", "half", "zero"}

\* orderBy(ks[1], ds[1]).thenBy(ks[2], ds[2])...thenBy(ks[m], ds[m]) on Base
RECURSIVE Chain(_, _, _)
Chain(ks, ds, m) ==
    IF m = 1 THEN Query_orderBy(Base, ks[1], ds[1])
    ELSE SortQuery_thenBy(Chain(ks, ds, m - 1), ks[m], ds[m])

\* key tuple a comes strictly before key tuple b under directions ds
Before(a, b, ds) ==
    \E i \in 1..Len(ds) :
        /\ \A j \in 1..(i - 1) : a[j] = b[j]
        /\ IF ds[i] = "desc" THEN a[i] > b[i] ELSE a[i] < b[i]

\* out is xs arranged by the key selectors ks with directions ds, compared
\* lexicographically, elements of equal key tuple in their order in xs
Arranged(out, xs, ks, ds) ==
    LET KeyOf(v) == [i \in 1..Len(ks) |-> Sel(ks[i], v)]
    IN  /\ Len(out) = Len(xs)
        /\ \A i \in 1..(Len(out) - 1) : ~Before(KeyOf(out[i + 1]), KeyOf(out[i]), ds)
        /\ \A n \in 1..Len(xs) :
              LET Tied(v) == KeyOf(v) = KeyOf(xs[n])
              IN  SelectSeq(out, Tied) = SelectSeq(xs, Tied)

\* C7: orderBy(k1, d1).thenBy(k2, d2)...thenBy(km, dm) delivers all upstream
\* elements ordered lexicographically by (k1, ..., km), each key ascending
\* or descending as asked, elements equal on every key in upstream order.
C7_Ordered ==
    (Traversal /\ Full(Last) /\ ops >= 1)
        => \A ks \in [1..ops -> SortKeys], ds \in [1..ops -> Directions] :
              q = Chain(ks, ds, ops) => Arranged(Last.out, Root(q), ks, ds)

\* every element ties on the first key; the second key, descending, puts
\* the odd element first; 2 and 0 tie on both keys and keep their order
C7_Witness ==
    /\ Traversal /\ Full(Last)
    /\ q = Chain(<<"zero", "mod2">>, <<"asc", "desc">>, 2)
    /\ Root(q) = <<2, 1, 0>>
    /\ Last.out = <<1, 2, 0>>

\* the elements key selector number i was called with, in call order
KeyCalls(log, i) ==
    LET IsCall(ev) == ev.e = "key" /\ ev.i = i
    IN  [n \in 1..Len(SelectSeq(log, IsCall)) |-> SelectSeq(log, IsCall)[n].v]

\* C8: every traversal of a sort pipeline with m key selectors over n
\* elements calls each key selector exactly once per element (n * m calls),
\* and traverses the upstream once; a second traversal does the same again.
C8_KeyCalls ==
    ops >= 1 =>
        \A ks \in [1..ops -> SortKeys], ds \in [1..ops -> Directions] :
            q = Chain(ks, ds, ops)
                => \A t \in 1..Len(hist) :
                      /\ \A i \in 1..ops : KeyCalls(hist[t].log, i) = Root(q)
                      /\ Count(hist[t].log, "key") = Len(Root(q)) * ops
                      /\ Reads(hist[t].log) = Root(q)

\* a second traversal of a pipeline with two key selectors over 3 elements
C8_Witness ==
    /\ Len(hist) = 2
    /\ q.src.kind = "orderBy"
    /\ Len(q.src.keyMakers) = 2
    /\ Len(Root(q)) = 3
    /\ Count(hist[2].log, "key") = 6
    /\ hist[1].op = "iterate" /\ hist[2].op = "toArray"

\* what a log shows of the pipeline upstream of a memoize: everything but
\* the reads of the memoized array
Upstream(log) == LET Up(ev) == ev.f /= "memo" IN SelectSeq(log, Up)

\* C9: a memoized pipeline traverses its upstream exactly once in total, in
\* its first traversal and in full even if that traversal is abandoned; no
\* later traversal calls an upstream selector or predicate or reads the
\* source; every traversal delivers the sequence the first one captured.
C9_MemoizeOnce ==
    (q.src.kind = "memo" /\ ~Has(q.src.src, {"memo"}))
        => LET once == Array_from(q.src.src, World(EmptyHeap))
           IN  \A t \in 1..Len(hist) :
                  /\ Upstream(hist[t].log) = IF t = 1 THEN once.w.log ELSE <<>>
                  /\ heap[q.src.id].vals = once.values
                  /\ hist[t].out = IF hist[t].arg = 0 THEN once.values
                                   ELSE Prefix(once.values, hist[t].arg)

\* a first traversal abandoned after one element, then a full one, over an
\* upstream with a predicate and more than one element
C9_Witness ==
    /\ q.src.kind = "memo" /\ q.src.src.kind = "where"
    /\ Len(Root(q)) = 3
    /\ Len(hist) = 2
    /\ hist[1].op = "iterate" /\ hist[1].arg = 1
    /\ hist[2].op = "toArray" /\ Len(hist[2].out) >= 2
    /\ Count(hist[1].log, "pred") = 3

\* C10: where(p) delivers exactly the elements of its input for which p
\* holds, in input order, in both variants and under pull and push.
C10_WhereFilters ==
    (Traversal /\ Full(Last) /\ q.src.kind = "where")
        => LET Holds(v) == Pred(q.src.p, v)
           IN  Last.out = SelectSeq(SeqOf(q.src.src, Last), Holds)

\* a where over an input of which it keeps some elements and rejects others
C10_Witness ==
    /\ Traversal /\ Full(Last) /\ q.src.kind = "where"
    /\ Len(Last.out) >= 1
    /\ Len(Last.out) < Len(SeqOf(q.src.src, Last))

(***************************************************************************)
(* select over arrays and over a take.                                     *)
(***************************************************************************)
NextSelect == Select \/ Take \/ ToArray \/ Spread \/ Each
SpecSelect == InitWhere /\ [][NextSelect]_vars

\* C11: select(f) delivers as many elements as its input xs holds, the i-th
\* being f(xs[i]); f is applied once per element, in input order.
C11_SelectMaps ==
    (Traversal /\ Full(Last) /\ q.src.kind = "select")
        => LET xs == SeqOf(q.src.src, Last)
           IN  /\ Len(Last.out) = Len(xs)
               /\ \A i \in 1..Len(xs) : Last.out[i] = Sel(q.src.f, xs[i])
               /\ ~Has(q.src.src, {"select"}) => Pick(Last.log, "sel") = xs

\* toArray() of the push variant over a full-length array, mapped by a
\* selector that changes every element
C11_Witness ==
    /\ Traversal /\ Last.op = "toArray" /\ variant = "push"
    /\ q.src.kind = "select" /\ q.src.f = "inc" /\ ops = 1
    /\ Len(Last.out) = MaxLen
    /\ Count(Last.log, "sel") = MaxLen

(***************************************************************************)
(* distinct over elements that share keys.                                 *)
(***************************************************************************)
NextDistinct == Distinct \/ ToArray \/ Spread \/ Each
SpecDistinct == InitSort /\ [][NextDistinct]_vars

\* the elements of xs at the positions in idx, in order, from position i on
RECURSIVE At(_, _, _)
At(xs, idx, i) ==
    IF i > Len(xs) THEN <<>>
    ELSE (IF i \in idx THEN <<xs[i]>> ELSE <<>>) \o At(xs, idx, i + 1)

\* the first element of xs for each key, in the order of those elements
FirstOfEachKey(xs, f) ==
    At(xs, {i \in 1..Len(xs) : \A j \in 1..(i - 1) : Sel(f, xs[j]) /= Sel(f, xs[i])}, 1)

KeysOf(xs, f) == {Sel(f, xs[i]) : i \in 1..Len(xs)}

\* C12: distinct(keyOf) delivers exactly one element per key value that
\* occurs in its input, the first input element with that key, in the order
\* of those first occurrences.
C12_DistinctFirsts ==
    (Traversal /\ Full(Last) /\ q.src.kind = "distinct")
        => LET xs == SeqOf(q.src.src, Last)
           IN  /\ Last.out = FirstOfEachKey(xs, q.src.f)
               /\ Len(Last.out) = Cardinality(KeysOf(xs, q.src.f))
               /\ KeysOf(Last.out, q.src.f) = KeysOf(xs, q.src.f)

\* three different elements of which the last two share their key
C12_Witness ==
    /\ Traversal /\ Full(Last) /\ q.src.kind = "distinct" /\ ops = 1
    /\ q.src.f = "half"
    /\ Root(q) = <<2, 0, 1>>
    /\ Last.out = <<2, 0>>

\* distinct() called without a key selector
DistinctDefault == Built(Query_distinct(q, "undefined"))
NextDistinctDefault == DistinctDefault \/ ToArray \/ Spread \/ Each
SpecDistinctDefault == InitSort /\ [][NextDistinctDefault]_vars

\* C13: distinct() without a key selector takes each element as its own
\* key: the traversal completes without error and delivers the first
\* occurrence of each distinct value.
C13_DistinctDefault ==
    (Traversal /\ Full(Last) /\ ops = 1 /\ q.src.kind = "distinct" /\ q.src.f = "undefined")
        => /\ Last.err = ""
           /\ Last.out = FirstOfEachKey(Root(q), "id")

(***************************************************************************)
(* zip of an array with right sources of every length up to MaxLen, given  *)
(* as an array or as a Query.  The right elements MaxVal + 1, MaxVal + 2,  *)
(* ... are none of the left ones.                                          *)
(***************************************************************************)
RightArray(n) == [kind |-> "rawArray", xs |-> [i \in 1..n |-> MaxVal + i], name |-> "right"]
Rights == {RightArray(n) : n \in 0..MaxLen} \cup {Query(sourceOf(RightArray(n))) : n \in 0..MaxLen}
ZipWith ==
    /\ q.src.kind /= "zip"
    /\ \E b \in Rights, f \in {"sum", "right"} : Built(Query_zip(q, b, f))
NextZip == ZipWith \/ ToArray \/ Spread \/ Each
SpecZip == InitWhere /\ [][NextZip]_vars

\* the elements read from the array of that name, in the order read
ReadsOf(log, name) ==
    LET Is(ev) == ev.e = "read" /\ ev.f = name
    IN  [n \in 1..Len(SelectSeq(log, Is)) |-> SelectSeq(log, Is)[n].v]

\* the calls of the zip selector, in order
Zips(log) == LET IsZip(ev) == ev.e = "zip" IN SelectSeq(log, IsZip)

NextSkipLast == SkipLast \/ ToArray \/ Spread \/ Each
SpecSkipLast == InitWhere /\ [][NextSkipLast]_vars

\* C15: skipLast(c) with c >= 1 over an input xs of length n delivers the
\* first max(n - c, 0) elements of xs in order (none when n <= c), under
\* pull and under push traversal.
C15_SkipLastPrefix ==
    (Traversal /\ Full(Last) /\ q.src.kind = "skipLast" /\ q.src.n >= 1)
        => LET xs == SeqOf(q.src.src, Last)
           IN  /\ Last.out = SubSeq(xs, 1, Max(Len(xs) - q.src.n, 0))
               /\ Last.err = ""

\* the longest array with its last two elements skipped, pushed
C15_Witness ==
    /\ Traversal /\ Last.op = "push" /\ q.src.kind = "skipLast" /\ ops = 1
    /\ q.src.n = 2 /\ Len(Root(q)) = MaxLen
    /\ Last.out = SubSeq(Root(q), 1, MaxLen - 2)
    /\ Last.out /= <<>>

(***************************************************************************)
(* skipLast and takeLast with counts that are zero or negative.            *)
(***************************************************************************)
NonPositive == (0 - MaxCount)..0
SkipLastBy == \E n \in NonPositive : Built(Query_skipLast(q, n))
TakeLastBy == \E n \in NonPositive : Built(Query_takeLast(q, n))
NextNonPositive == SkipLastBy \/ TakeLastBy \/ ToArray \/ Spread \/ Each
SpecNonPositive == InitWhere /\ [][NextNonPositive]_vars

\* C16: with a count that is zero or negative, skipLast(count) and
\* takeLast(count) deliver nothing, whatever the input, and raise no error.
C16_NonPositiveCount ==
    (Traversal /\ Full(Last) /\ ops = 1 /\ q.src.kind \in {"skipLast", "thru"} /\ q.src.n <= 0)
        => Last.out = <<>> /\ Last.err = ""

(***************************************************************************)
(* single (pull-only variant) over pipelines that hold no match, one match *)
(* and several.                                                            *)
(***************************************************************************)
\* q.single(predicate)
Single ==
    /\ variant = "pull"
    /\ \E p \in {"even", "pos"} : Traversed("single", p, Run("single", q, p, World(heap)))
NextSingle == Select \/ Single \/ Spread
InitSingle == InitWith({"pull"}, {RawArray(xs) : xs \in Arrays}, 1)
SpecSingle == InitSingle /\ [][NextSingle]_vars

\* C17: single(predicate) signals an error whenever two or more elements
\* satisfy the predicate, returning none of them; when exactly one does it
\* returns that element.
C17_SingleOrError ==
    (Traversal /\ Last.op = "single")
        => LET Holds(v) == Pred(Last.arg, v)
               matches == SelectSeq(PullSeq(q), Holds)
           IN  /\ Len(matches) >= 2 => Last.err = "Error" /\ Last.out = <<>>
               /\ Len(matches) = 1 => Last.err = "" /\ Last.out = matches

\* three elements of which the first and the last match: the error is
\* signalled at the last one, after the predicate has seen all three
C17_Witness ==
    /\ Traversal /\ Last.op = "single" /\ Last.arg = "even"
    /\ PullSeq(q) = <<0, 1, 0>>
    /\ Last.err = "Error"
    /\ Count(Last.log, "pred") = 3

(***************************************************************************)
(* selectMany with selectors that return arrays, arrays of arrays, and     *)
(* Query objects.                                                          *)
(***************************************************************************)
SelectManyOf ==
    /\ q.src.kind /= "selectMany"
    /\ \E f \in ManySelectors : Built(Query_selectMany(q, f))
NextMany == SelectManyOf \/ ToArray \/ Spread \/ Each
SpecMany == InitWhere /\ [][NextMany]_vars

\* a source traversed on its own to the end, the way traversal t went
AloneAs(node, t) ==
    CASE t.op = "toArray" -> Query_toArray(AsQuery(node), World(heap))
      [] t.op = "iterate" -> Query_iterate(AsQuery(node), 0, World(heap))
      [] t.op = "push" -> Query_push(AsQuery(node), 0, World(heap))

\* the array reads of a log: which array, and the element read
ReadLog(log) ==
    LET IsRead(ev) == ev.e = "read"
    IN  [n \in 1..Len(SelectSeq(log, IsRead)) |->
            <<SelectSeq(log, IsRead)[n].f, SelectSeq(log, IsRead)[n].v>>]

\* the sequences f(xs[i]) one after the other, from position i on
RECURSIVE Flat(_, _, _, _)
Flat(xs, f, t, i) ==
    IF i > Len(xs) THEN <<>>
    ELSE AloneAs(sourceOf(ManySel(f, xs[i])), t).values \o Flat(xs, f, t, i + 1)

\* xs[i] read, then what traversing f(xs[i]) reads, from position i on
RECURSIVE FlatReads(_, _, _, _)
FlatReads(xs, f, t, i) ==
    IF i > Len(xs) THEN <<>>
    ELSE <<(<<"src", xs[i]>>)>> \o ReadLog(AloneAs(sourceOf(ManySel(f, xs[i])), t).w.log)
            \o FlatReads(xs, f, t, i + 1)

\* C18: selectMany(f) over xs delivers the elements of f(xs[1]) in order,
\* then those of f(xs[2]), and so on; f(xs[i]) is traversed to its end
\* before xs[i + 1] is read; an element of f(xs[i]) that is itself a
\* sequence is delivered as one element.
C18_Flattens ==
    (Traversal /\ Full(Last) /\ ops = 1 /\ q.src.kind = "selectMany")
        => /\ Len(Last.out) = Len(Flat(Root(q), q.src.f, Last, 1))
           /\ Last.out = Flat(Root(q), q.src.f, Last, 1)
           /\ ReadLog(Last.log) = FlatReads(Root(q), q.src.f, Last, 1)

(***************************************************************************)
(* join of an array with the right sources of RightSources: arrays, and    *)
(* Queries that end before their array does or with it.                    *)
(***************************************************************************)
Join ==
    /\ q.src.kind /= "selectMany"
    /\ \E R \in RightSources, p \in JoinPredicates, s \in {"sum", "right"} :
          Built(Query_join(q, R, p, s))
NextJoin == Join \/ ToArray \/ Spread \/ Each
\* the left sequences: arrays of up to MaxLeft elements
MaxLeft == 2
InitJoin == InitWith(Variants, {RawArray(xs) : xs \in SeqsUpTo(Values, MaxLeft)}, 1)
SpecJoin == InitJoin /\ [][NextJoin]_vars

\* s(l, r) for the elements r of R with p(l, r), in R's order
Matches(l, R, p, s) ==
    LET Holds(r) == JoinPred(p, l, r)
        rs == SelectSeq(R, Holds)
    IN  [n \in 1..Len(rs) |-> ZipSel(s, l, rs[n])]

\* the matches of L[i], L[i + 1], ... one after the other
RECURSIVE Joined(_, _, _, _, _)
Joined(L, R, p, s, i) ==
    IF i > Len(L) THEN <<>> ELSE Matches(L[i], R, p, s) \o Joined(L, R, p, s, i + 1)

\* R read from its first element to its last, n times over
RECURSIVE Times(_, _)
Times(R, n) == IF n = 0 THEN <<>> ELSE R \o Times(R, n - 1)

\* the elements of the right source R, in its order: those of the array,
\* or the first n of them for from(ys).take(n)
RightSeq(R) == IF R.kind = "rawArray" THEN R.xs ELSE Prefix(Root(R), R.src.n)

\* the number of times the array of that name was read from its start
Starts(log, name) ==
    Cardinality({n \in 1..Len(log) : log[n].e = "read" /\ log[n].f = name /\ log[n].i = 0})

\* C19: L.join(R, p, s) delivers one s(l, r) for every pair (l, r) with
\* p(l, r), ordered by the position of l in L and then of r in R, and
\* traverses R from its start once for every element of L: an array R is
\* read through once for each, a Query R is started once for each.
C19_JoinPairs ==
    (Traversal /\ Full(Last) /\ ops = 1 /\ q.src.kind = "selectMany")
        => \A R \in RightSources, p \in JoinPredicates, s \in ZipSelectors :
              q = Query_join(Base, R, p, s)
                  => /\ Last.out = Joined(Root(q), RightSeq(R), p, s, 1)
                     /\ R.kind = "rawArray"
                           => ReadsOf(Last.log, "right") = Times(Root(R), Len(Root(q)))
                     /\ Starts(Last.log, "right") = IF Root(R) = <<>> THEN 0 ELSE Len(Root(q))
                     /\ ReadsOf(Last.log, "src") = Root(q)

(***************************************************************************)
(* groupJoin.                                                              *)
(***************************************************************************)
\* q.groupJoin(R, p, (l, rValues) => ({ l, rValues }))
GroupJoin ==
    /\ q.src.kind /= "select"
    /\ \E R \in JoinSources, p \in JoinPredicates : Built(Query_groupJoin(q, R, p, "pair"))

\* the caller, holding the outputs of a traversal of q.groupJoin(...), runs
\* through the sequence of the i-th: out[i].rValues.toArray()
IterateGroup ==
    /\ Traversal /\ Last.op /= "group"
    /\ q.src.kind = "select"
    /\ \E i \in 1..Len(Last.out) :
          Traversed("group", i, Run("toArray", Last.out[i].rValues, 0, World(heap)))

NextGroupJoin == GroupJoin \/ ToArray \/ Spread \/ Each \/ IterateGroup
InitGroupJoin == InitWith(Variants, {RawArray(xs) : xs \in Arrays}, MaxRuns)
SpecGroupJoin == InitGroupJoin /\ [][NextGroupJoin]_vars

\* the elements r of R with p(l, r), in R's order
Group(l, R, p) == LET Holds(r) == JoinPred(p, l, r) IN SelectSeq(R, Holds)

\* C20: L.groupJoin(R, p, s) delivers one output for every element of L,
\* in L's order, also for an element nothing of R matches; no element of R
\* is read while it does so; and the sequence handed to s for l, once the
\* caller iterates it, reads R through once and yields exactly the r with
\* p(l, r), in R's order.
C20_GroupJoinLazy ==
    (Traversal /\ ops = 1 /\ q.src.kind = "select")
        => \A R \in JoinSources, p \in JoinPredicates :
              q = Query_groupJoin(Base, R, p, "pair")
                  => \A n \in 1..Len(hist) :
                        IF hist[n].op /= "group"
                        THEN /\ Len(hist[n].out) = Len(Root(q))
                             /\ \A i \in 1..Len(Root(q)) : hist[n].out[i].l = Root(q)[i]
                             /\ ReadsOf(hist[n].log, "src") = Root(q)
                             /\ ReadsOf(hist[n].log, "right") = <<>>
                        ELSE /\ hist[n].out = Group(hist[n - 1].out[hist[n].arg].l, Root(R), p)
                             /\ ReadsOf(hist[n].log, "right") = Root(R)

\* three left elements, the second above every right one; the sequence of
\* the first is iterated after the traversal
C20_Witness ==
    /\ Len(hist) = 2 /\ hist[2].op = "group" /\ hist[2].arg = 1 /\ variant = "push"
    /\ q = Query_groupJoin(Base, JoinArray(<<0, 1, 1>>), "lt", "pair")
    /\ Root(q) = <<0, 1, 0>>
    /\ Len(hist[1].out) = 3
    /\ hist[1].out[2].l = 1
    /\ ReadsOf(hist[1].log, "right") = <<>>
    /\ hist[2].out = <<1, 1>>

(***************************************************************************)
(* except and without.  The caller owns an array, kept in cell Black of    *)
(* the heap (the one cell no MemoSource uses), hands it to except as a     *)
(* blacklist, and may push a value on it after the call.                   *)
(***************************************************************************)
Black == MaxStages + 1

Blacklist(ys) == [kind |-> "rawArray", xs |-> ys, name |-> "black"]
Blacks == {<<>>, <<0>>, <<1, 0>>}
\* the second blacklist: an empty array, or a Query
Seconds == {Blacklist(<<>>), Query(sourceOf(Blacklist(<<1>>)))}

\* q.except(black, second)
Except ==
    /\ q.src.kind /= "without"
    /\ ~heap[Black].ran
    /\ ops < MaxStages
    /\ \E second \in Seconds :
          \E e \in {Query_except(q, <<Blacklist(heap[Black].vals), second>>, World(heap))} :
              /\ q' = IF e.values = <<>> THEN q ELSE e.values[1]
              /\ ops' = IF e.values = <<>> THEN ops ELSE ops + 1
              /\ hist' = IF e.values = <<>>
                         THEN <<[op |-> "except", arg |-> 0, out |-> <<>>, ret |-> TRUE,
                                 log |-> e.w.log, err |-> e.w.err]>>
                         ELSE <<>>
              /\ heap' = e.w.memo
    /\ UNCHANGED <<variant, budget>>

\* q.without(...values)
WithoutOf ==
    /\ q.src.kind /= "without"
    /\ \E values \in SUBSET Values : Built(Query_without(q, values))

\* black.push(v), after except was called
Mutate ==
    /\ q.src.kind = "without"
    /\ ~heap[Black].ran
    /\ \E v \in Values :
          heap' = [heap EXCEPT ![Black] = [ran |-> TRUE, vals |-> Append(@.vals, v)]]
    /\ UNCHANGED <<variant, q, ops, hist, budget>>

InitExcept ==
    /\ variant \in Variants
    /\ \E xs \in Arrays : q = from(<<RawArray(xs)>>)
    /\ ops = 0
    /\ hist = <<>>
    /\ \E ys \in Blacks : heap = [EmptyHeap EXCEPT ![Black] = [ran |-> FALSE, vals |-> ys]]
    /\ budget = 1
NextExcept == Except \/ WithoutOf \/ Mutate \/ ToArray \/ Spread \/ Each
SpecExcept == InitExcept /\ [][NextExcept]_vars

\* what the caller's array held when except was called
BlackThen ==
    IF heap[Black].ran THEN SubSeq(heap[Black].vals, 1, Len(heap[Black].vals) - 1)
    ELSE heap[Black].vals

\* the elements of xs outside the set vs, in the order of xs
Outside(xs, vs) == LET Kept(v) == v \notin vs IN SelectSeq(xs, Kept)

\* C21: except(b1, ..., bk) and without(v1, ..., vk) deliver, in the order
\* of the upstream, exactly its elements outside the exclusion set; the set
\* is what the blacklists held when except was called: no traversal reads
\* a blacklist, and a value pushed on one after the call excludes nothing.
C21_ExcludedOnce ==
    (Traversal /\ ops = 1 /\ q.src.kind = "without")
        => \A n \in 1..Len(hist) :
              /\ ReadsOf(hist[n].log, "black") = <<>>
              /\ ReadsOf(hist[n].log, "src") = Root(q)
              /\ \A second \in Seconds :
                    <<q>> = Query_except(Base, <<Blacklist(BlackThen), second>>, World(heap)).values
                        => hist[n].out = Outside(Root(q), SetOf(BlackThen) \cup SetOf(Root(second)))
              /\ \A values \in SUBSET Values :
                    q = Query_without(Base, values) => hist[n].out = Outside(Root(q), values)

\* 0 is pushed on the empty blacklist after except was called, and the
\* traversal that follows still delivers the 0 of the upstream
C21_Witness ==
    /\ Len(hist) = 1 /\ variant = "push" /\ Last.op = "toArray"
    /\ heap[Black] = [ran |-> TRUE, vals |-> <<0>>]
    /\ <<q>> = Query_except(Base, <<Blacklist(<<>>), Query(sourceOf(Blacklist(<<1>>)))>>,
                            World(heap)).values
    /\ Root(q) = <<1, 0, 1>>
    /\ Last.out = <<0>>

(***************************************************************************)
(* Operator calls whose result the caller keeps elsewhere (in cell Black   *)
(* of the heap) while q stays the receiver of the call.  An operator       *)
(* reads this.source and hands it to a constructor; what the call leaves   *)
(* of the receiver is what the constructor leaves of that argument.        *)
(***************************************************************************)
\* source after new OrderBySource(source, keySelector, descending, true),
\* had the constructor pushed keyMaker on source.keyMakers
OrderBySource_source_pushed(src, f, desc, auxiliary) ==
    IF auxiliary /\ src.kind = "orderBy"
    THEN [src EXCEPT !.keyMakers = Append(@, [keySelector |-> f, descending |-> desc])]
    ELSE src

\* source after new OrderBySource(source, keySelector, descending, auxiliary):
\* source.source is read and [ ...source.keyMakers, keyMaker ] is a new array
OrderBySource_source(src, f, desc, auxiliary) == src

\* this after this.thenBy(keySelector, direction)
SortQuery_thenBy_this(this, keySelector, direction) ==
    Query(OrderBySource_source(this.src, keySelector, direction = "desc", TRUE))

\* this after this.select(selector): SelectSource's constructor stores its
\* argument and writes nothing
Query_select_this(this, selector) == Query(this.src)

Kept(this, result) ==
    /\ ops < MaxStages
    /\ Len(hist) = 1
    /\ q' = this
    /\ ops' = ops + 1
    /\ heap' = [heap EXCEPT ![Black] = [ran |-> TRUE, vals |-> <<result>>]]
    /\ UNCHANGED <<variant, hist, budget>>

\* const sorted = q.thenBy(keySelector, direction)
ThenByKept ==
    /\ q.src.kind = "orderBy"
    /\ \E d \in Directions :
          Kept(SortQuery_thenBy_this(q, "mod2", d), SortQuery_thenBy(q, "mod2", d))

\* const mapped = q.select(selector)
SelectKept == Kept(Query_select_this(q, "inc"), Query_select(q, "inc"))

\* for (const value of sorted) ..., of the query the caller kept
IterateKept ==
    /\ heap[Black].ran
    /\ Len(hist) < budget
    /\ Traversed("kept", 0, Run("iterate", heap[Black].vals[1], 0, World(heap)))

\* one traversal of the receiver before the call, one of the Query
\* returned, and one of the receiver after it
InitKept == InitWith(Variants, {RawArray(xs) : xs \in SeqsUpTo(0..MaxKey, 2)}, 3)
SortOnce == ~heap[Black].ran /\ SortBy
NextKept == SortOnce \/ ThenByKept \/ SelectKept \/ Spread \/ Each \/ IterateKept
SpecKept == InitKept /\ [][NextKept]_vars

\* the traversals of q among hist
OfReceiver(n) == hist[n].op /= "kept"

\* C22: an operator call (thenBy included) returns a new Query and leaves
\* its receiver as it was: a traversal of the receiver after the call
\* delivers what the same traversal delivered before it, with the same
\* calls of the key selectors, so the key makers of an orderBy stage are
\* not those of the thenBy derived from it; and the Query returned is the
\* receiver's pipeline with the new stage (a thenBy arranges what the
\* receiver delivers by the receiver's keys and then its own).
C22_ReceiverUnchanged ==
    /\ \A i, j \in 1..Len(hist) :
          (OfReceiver(i) /\ OfReceiver(j) /\ hist[i].op = hist[j].op)
              => hist[i].out = hist[j].out /\ hist[i].log = hist[j].log
    /\ \A n \in 1..Len(hist) :
          hist[n].op = "kept"
              => LET kept == heap[Black].vals[1].src
                 IN  IF kept.kind = "orderBy"
                     THEN /\ Len(kept.keyMakers) = Len(q.src.keyMakers) + 1
                          /\ SubSeq(kept.keyMakers, 1, Len(q.src.keyMakers)) = q.src.keyMakers
                          /\ Arranged(hist[n].out, hist[1].out,
                                      [i \in DOMAIN kept.keyMakers |-> kept.keyMakers[i].keySelector],
                                      [i \in DOMAIN kept.keyMakers |->
                                          IF kept.keyMakers[i].descending THEN "desc" ELSE "asc"])
                     ELSE \A m \in 1..Len(hist) :
                             hist[m].op = "iterate"
                                 => hist[n].out = [x \in DOMAIN hist[m].out |->
                                                      Sel("inc", hist[m].out[x])]

\* [1, 0] ordered by half keeps its order; the thenBy(mod2) derived from it
\* delivers [0, 1], and the orderBy traversed again delivers [1, 0] again
C22_Witness ==
    /\ Len(hist) = 3 /\ variant = "pull"
    /\ q = Query_orderBy(Base, "half", "asc")
    /\ heap[Black].vals = <<SortQuery_thenBy(q, "mod2", "asc")>>
    /\ Root(q) = <<1, 0>>
    /\ hist[1].op = "iterate" /\ hist[1].out = <<1, 0>>
    /\ hist[2].op = "kept" /\ hist[2].out = <<0, 1>>
    /\ hist[3].op = "iterate" /\ hist[3].out = <<1, 0>>

(***************************************************************************)
(* Pipelines of stages that keep state while they are traversed, each      *)
(* traversed twice; the first traversal may be left early.                 *)
(***************************************************************************)
StatefulStages == {"distinct", "orderBy", "fatMap", "skip", "skipLast", "skipWhile",
                   "take", "intersperse", "zip"}
Staged(this, stage) ==
    CASE stage = "distinct" -> Query_distinct(this, "id")
      [] stage = "orderBy" -> Query_orderBy(this, "mod2", "desc")
      [] stage = "fatMap" -> Query_fatMap(this, "total", 1)
      [] stage = "skip" -> Query_skip(this, 1)
      [] stage = "skipLast" -> Query_skipLast(this, 1)
      [] stage = "skipWhile" -> Query_skipWhile(this, "even")
      [] stage = "take" -> Query_take(this, 2)
      [] stage = "intersperse" -> Query_intersperse(this, MaxVal + 5)
      [] stage = "zip" -> Query_zip(this, RawArray(<<3, 2>>), "sum")
Stateful == ops < 2 /\ \E stage \in StatefulStages : Built(Staged(q, stage))

InitAgain == InitWith(Variants, {RawArray(xs) : xs \in BitArrays}, 2)
NextAgain == Stateful \/ Iterate \/ Push
SpecAgain == InitAgain /\ [][NextAgain]_vars

IsPrefix(s, t) == Len(s) <= Len(t) /\ s = SubSeq(t, 1, Len(s))

\* what a traversal left after its limit-th element has of values (all of
\* them when limit is 0)
LeftAfter(values, limit) == IF limit = 0 THEN values ELSE Prefix(values, limit)

\* C23: over restartable sources, a traversal of a pipeline of stateful
\* stages (distinct, orderBy, fatMap, skip, skipLast, skipWhile, take,
\* intersperse, zip) started after an earlier one, run to its end or left
\* early, delivers exactly what a first traversal delivers: it starts from
\* the first element again, with counters, sets and buffers as new, so of
\* two traversals of the same kind the one left earlier has delivered the
\* first elements of the other, from the same reads and calls.
C23_FreshState ==
    \A i, j \in 1..Len(hist) :
        (/\ hist[i].op = hist[j].op
         /\ hist[j].arg = 0 \/ (hist[i].arg /= 0 /\ hist[i].arg <= hist[j].arg))
            => /\ hist[i].out = LeftAfter(hist[j].out, hist[i].arg)
               /\ IsPrefix(hist[i].log, hist[j].log)
               /\ hist[i].arg = hist[j].arg => hist[i].log = hist[j].log

\* distinct().take(2) over [0, 0, 1] under push: left after its first
\* element, then traversed to the end
C23_Witness ==
    /\ Len(hist) = 2 /\ variant = "push"
    /\ q = Query_take(Query_distinct(Base, "id"), 2)
    /\ Root(q) = <<0, 0, 1>>
    /\ hist[1].op = "push" /\ hist[1].arg = 1 /\ hist[1].out = <<0>>
    /\ hist[2].op = "push" /\ hist[2].arg = 0 /\ hist[2].out = <<0, 1>>

(***************************************************************************)
(* fatMap with a selector that returns an array.                           *)
(***************************************************************************)
FatMapRest == \E W \in 0..MaxFatWindow : Built(Query_fatMap(q, "rest", W))
NextFlat == FatMapRest \/ ToArray \/ Spread \/ Each
SpecFlat == InitFat /\ [][NextFlat]_vars

\* the arrays the selector returned for the windows wins, concatenated
RECURSIVE Rests(_)
Rests(wins) == IF wins = <<>> THEN <<>> ELSE Tail(Head(wins).ws) \o Rests(Tail(wins))

\* C24 as stated: what fatMap delivers is the concatenation of what its
\* selector returned for each window: an empty result adds no element, a
\* result of k elements adds k.  (An array and a number cannot be
\* compared, so the two sequences are compared as written out.)
C24_FatMapFlattens ==
    (Traversal /\ Full(Last) /\ ops = 1 /\ q.src.kind = "fatMap" /\ q.src.f = "rest")
        => /\ Len(Last.out) = Len(Rests(Wins(Last.log)))
           /\ ToString(Last.out) = ToString(Rests(Wins(Last.log)))

\* C24, amended: fatMap delivers one element per window, in the order of
\* the windows: whatever its selector returned for the window.  A result
\* that is an array, empty or of k elements, is delivered as one element,
\* the array itself.
C24_FatMapMaps ==
    (Traversal /\ Full(Last) /\ ops = 1 /\ q.src.kind = "fatMap" /\ q.src.f = "rest")
        => LET xs == Root(q)
               W == q.src.n
           IN  /\ Len(Last.out) = Len(xs)
               /\ \A i \in 1..Len(xs) :
                     Last.out[i] = SubSeq(xs, Max(1, i - W) + 1, Min(Len(xs), i + W))

\* over [1, 2] with half-window 1 the selector returns [2] for both
\* windows, and [2], [2] is delivered, not 2, 2; under push
C24_Witness ==
    /\ Traversal /\ Full(Last) /\ ops = 1 /\ variant = "push" /\ Last.op = "push"
    /\ q = Query_fatMap(Base, "rest", 1)
    /\ Root(q) = Ramp(2)
    /\ Last.out = <<<<2>>, <<2>>>>

(***************************************************************************)
(* sample over arrays whose elements name their positions, for every       *)
(* outcome of the random number generator.                                 *)
(***************************************************************************)
\* the outcomes of the first MaxLen calls of Math.random, each scaled to
\* the widest range it is asked for
Randoms == [1..MaxLen -> 0..(MaxLen - 1)]
SampleCounts == (0 - 1)..(MaxLen + 1)
Sample == ops = 0 /\ \E count \in SampleCounts : Built(Query_sample(q, count))

InitSample ==
    /\ variant \in Variants
    /\ \E n \in 0..MaxLen : q = from(<<RawArray(Ramp(n))>>)
    /\ ops = 0
    /\ hist = <<>>
    /\ \E random \in Randoms : heap = [EmptyHeap EXCEPT ![0].vals = random]
    /\ budget = 1
NextSample == Sample \/ ToArray \/ Spread \/ Each
SpecSample == InitSample /\ [][NextSample]_vars

\* C25: for every input of length n, every integer count and every outcome
\* of the random number generator, sample(count) delivers exactly
\* min(max(count, 0), n) elements, each from a different position of the
\* input.
C25_SampleDistinct ==
    (Traversal /\ ops = 1 /\ q.src.kind = "thru")
        => /\ Len(Last.out) = Min(Max(q.src.n, 0), Len(Root(q)))
           /\ \A i \in 1..Len(Last.out) : Last.out[i] \in 1..Len(Root(q))
           /\ \A i, j \in 1..Len(Last.out) : Last.out[i] = Last.out[j] => i = j

\* the generator picks the last position first, then the second
C25_Witness ==
    /\ Traversal /\ ops = 1 /\ q = Query_sample(Base, 2)
    /\ Root(q) = Ramp(MaxLen)
    /\ Last.out = <<MaxLen, 2>>
    /\ Last.op = "push"

(***************************************************************************)
(* Pipelines in which a selector or a predicate throws: boom throws when   *)
(* it is handed 1; calm returns what boom returns and never throws.        *)
(***************************************************************************)
SelectBoom == ops < 2 /\ Built(Query_select(q, "boom"))
WhereBoom == ops < 2 /\ Built(Query_where(q, "boom"))
InitThrow == InitWith(Variants, {RawArray(xs) : xs \in BitArrays}, 1)
NextThrow == SelectBoom \/ WhereBoom \/ Stateful \/ Iterate \/ Push
SpecThrow == InitThrow /\ [][NextThrow]_vars

\* the pipeline with calm in the place of boom
RECURSIVE Calm(_)
Calm(node) ==
    CASE node.kind \in {"array", "rawArray", "iter", "concat"} -> node
      [] node.kind = "query" -> Query(Calm(node.src))
      [] node.kind = "select" /\ node.f = "boom" -> SelectSource(Calm(node.src), "calm")
      [] node.kind = "where" /\ node.p = "boom" -> WhereSource(Calm(node.src), "calm")
      [] OTHER -> [node EXCEPT !.src = Calm(@)]

\* boom was handed 1 in the course of log
Boomed(log) == \E i \in 1..Len(log) : log[i].f = "boom" /\ log[i].v = 1

\* C26: an error thrown by a selector or a predicate the caller supplied
\* reaches the caller of the traversal through every stage downstream of
\* it: no stage catches or replaces it, and from the throw on nothing is
\* read from upstream, no function is called and nothing is delivered.
\* What was read and delivered before is what the pipeline reads and
\* delivers when the function does not throw.
C26_ErrorsPropagate ==
    \A n \in 1..Len(hist) :
        LET calm == Run(hist[n].op, Calm(q), hist[n].arg, World(EmptyHeap))
        IN  /\ Boomed(hist[n].log) <=> hist[n].err = "Error"
            /\ Boomed(hist[n].log)
                  => /\ hist[n].log[Len(hist[n].log)].f = "boom"
                     /\ hist[n].log[Len(hist[n].log)].v = 1
                     /\ hist[n].op = "push" => ~hist[n].ret
            /\ IsPrefix(hist[n].out, calm.values)
            /\ IsPrefix(ReadsOf(hist[n].log, "src"), ReadsOf(calm.w.log, "src"))
            /\ ~Boomed(hist[n].log)
                  => /\ hist[n].out = calm.values
                     /\ Len(hist[n].log) = Len(calm.w.log)

\* where(boom).skip(1) over [0, 1, 0]: skip drops the 0, the predicate
\* throws on 1, and the last element is never read
C26_Witness ==
    /\ Traversal /\ variant = "push" /\ Last.op = "push" /\ Last.arg = 0
    /\ q = Query_skip(Query_where(Base, "boom"), 1)
    /\ Root(q) = <<0, 1, 0>>
    /\ Last.err = "Error"
    /\ Last.out = <<>>
    /\ ReadsOf(Last.log, "src") = <<0, 1>>

(***************************************************************************)
(* One pull traversal of a fatMap stage, a call of next() at a time: the   *)
(* traversal under way is the one entry of hist, with the iterator's       *)
(* state (cur) and whether it has returned (done).                         *)
(***************************************************************************)
FatMapOnce == ops = 0 /\ FatMapWide

\* const iterator = q[Symbol.iterator]()
Begin ==
    /\ ops >= 1 /\ hist = <<>>
    /\ \E o \in {Open(q.src, World(heap))} :
          /\ hist' = <<[op |-> "iterate", arg |-> 0, out |-> <<>>, ret |-> TRUE,
                        log |-> o.w.log, err |-> o.w.err, cur |-> o.cur, done |-> FALSE]>>
          /\ heap' = o.w.memo
    /\ UNCHANGED <<variant, q, ops, budget>>

\* iterator.next(), on an iterator that was made and has not thrown; when
\* it throws nothing is returned, neither a value nor done
NextValue ==
    /\ hist /= <<>> /\ ~Last.done /\ Last.err = ""
    /\ LET r == IterNext(q.src, Last.cur, [World(heap) EXCEPT !.log = Last.log])
       IN  /\ hist' = <<[Last EXCEPT !.out = IF r.done THEN @ ELSE Append(@, r.val),
                                      !.log = r.w.log, !.cur = r.cur,
                                      !.done = r.done /\ r.w.err = "",
                                      !.err = r.w.err]>>
           /\ heap' = r.w.memo
    /\ UNCHANGED <<variant, q, ops, budget>>

NextRing == FatMapOnce \/ Begin \/ NextValue
SpecRing == InitFat /\ [][NextRing]_vars

\* next() has just returned what the selector made of the window
Invoked == hist /= <<>> /\ ~Last.done /\ Last.out /= <<>>

\* C27: whenever the selector is invoked, the ring buffer of a fatMap of
\* half-window W has 0 <= leftArm <= W, 0 <= rightArm <= W, its read and
\* write pointers within 0 .. 2W, and the 1 + leftArm + rightArm slots
\* that start leftArm slots before the read pointer hold consecutive
\* elements of the input (the one under the read pointer being the one the
\* invocation is for), none overwritten by a later one.
C27_RingInvariant ==
    Invoked
        => LET c == Last.cur.chungus
               W == q.src.n
               xs == Root(q)
               k == Len(Last.out)
           IN  /\ 0 <= c.leftArm /\ c.leftArm <= W
               /\ 0 <= c.rightArm /\ c.rightArm <= W
               /\ 0 <= c.readPtr /\ c.readPtr < 2 * W + 1
               /\ 0 <= c.writePtr /\ c.writePtr < 2 * W + 1
               /\ k - c.leftArm >= 1 /\ k + c.rightArm <= Len(xs)
               /\ \A j \in 0..(c.leftArm + c.rightArm) :
                     c.buffer[(c.readPtr + (2 * W + 1) - c.leftArm + j) % (2 * W + 1)]
                         = xs[k - c.leftArm + j]

\* the widest window over the longest input, after the write pointer has
\* gone round the ring
C27_Witness ==
    /\ Invoked
    /\ q.src.n = MaxFatWindow /\ Root(q) = Ramp(MaxFatLen)
    /\ Last.cur.chungus.leftArm = MaxFatWindow
    /\ Last.cur.chungus.rightArm = 1
    /\ Last.cur.chungus.writePtr < Last.cur.chungus.readPtr

\* C28: a fatMap of half-window W does not invoke its selector during the
\* first W elements fed to it: the first window is produced once W + 1
\* elements of the upstream have been fed (or the upstream has ended, when
\* it is shorter), and window number k is produced when exactly
\* min(k + W, n) of the n upstream elements have been consumed.
C28_Priming ==
    (Traversal /\ ops = 1 /\ q.src.kind = "fatMap")
        => \A i \in 1..Len(Last.log) :
              Last.log[i].e = "win"
                  => Count(SubSeq(Last.log, 1, i), "read")
                        = Min(Count(SubSeq(Last.log, 1, i), "win") + q.src.n, Len(Root(q)))

\* a push traversal under the widest window, stopped at the second window:
\* MaxFatWindow + 2 elements were read, and no more
C28_Witness ==
    /\ Traversal /\ ops = 1 /\ q.src.kind = "fatMap"
    /\ q.src.n = MaxFatWindow /\ Root(q) = Ramp(MaxFatLen)
    /\ Last.op = "push" /\ Last.arg = 2
    /\ Count(Last.log, "win") = 2
    /\ Count(Last.log, "read") = MaxFatWindow + 2

\* C29 as stated: for an input of more than W elements, the first window a
\* fatMap of half-window W produces is centred on input element W + 1.
C29_FirstWindowCentre ==
    (Traversal /\ ops = 1 /\ q.src.kind = "fatMap"
       /\ Len(Root(q)) > q.src.n /\ Wins(Last.log) /= <<>>)
        => Wins(Last.log)[1].v = Root(q)[q.src.n + 1]

\* C29, amended: for an input of more than W elements, the first window is
\* produced when input element W + 1 has been fed and is centred on the
\* first input element: its left arm is empty and its right arm holds
\* elements 2 .. W + 1.
C29_FirstWindowFirst ==
    (Traversal /\ ops = 1 /\ q.src.kind = "fatMap"
       /\ Len(Root(q)) > q.src.n /\ Wins(Last.log) /= <<>>)
        => /\ Wins(Last.log)[1].v = Root(q)[1]
           /\ Wins(Last.log)[1].ws = SubSeq(Root(q), 1, q.src.n + 1)
           /\ \E i \in 1..Len(Last.log) :
                 /\ Last.log[i].e = "win"
                 /\ Count(SubSeq(Last.log, 1, i), "win") = 1
                 /\ Count(SubSeq(Last.log, 1, i), "read") = q.src.n + 1

\* a pull traversal under the widest window, left after the first window
C29_Witness ==
    /\ Traversal /\ ops = 1 /\ q.src.kind = "fatMap"
    /\ q.src.n = MaxFatWindow /\ Root(q) = Ramp(MaxFatLen)
    /\ Last.op = "iterate" /\ Last.arg = 1 /\ variant = "pull"
    /\ Wins(Last.log) /= <<>>
    /\ Wins(Last.log)[1].v = 1
    /\ Wins(Last.log)[1].ws = Ramp(MaxFatWindow + 1)

(***************************************************************************)
(* Pipelines of lazy stages, pulled a call of next() at a time.            *)
(***************************************************************************)
LazyStages == {"where", "select", "selectMany", "concat", "distinct", "skip", "skipWhile",
               "take", "takeWhile", "intersperse", "zip", "without"}
Lazily(this, stage) ==
    CASE stage = "where" -> Query_where(this, "even")
      [] stage = "select" -> Query_select(this, "inc")
      [] stage = "selectMany" -> Query_selectMany(this, "dup")
      [] stage = "concat" -> Query_concat(this, <<RightArray(1)>>)
      [] stage = "distinct" -> Query_distinct(this, "id")
      [] stage = "skip" -> Query_skip(this, 1)
      [] stage = "skipWhile" -> Query_skipWhile(this, "even")
      [] stage = "take" -> Query_take(this, 2)
      [] stage = "takeWhile" -> Query_takeWhile(this, "even")
      [] stage = "intersperse" -> Query_intersperse(this, MaxVal + 5)
      [] stage = "zip" -> Query_zip(this, RightArray(2), "sum")
      [] stage = "without" -> Query_without(this, {1})
Lazy == ops < 2 /\ \E stage \in LazyStages : Built(Lazily(q, stage))

InitDemand == InitWith(Variants, {RawArray(xs) : xs \in BitArrays}, 1)
NextDemand == Lazy \/ Begin \/ NextValue
SpecDemand == InitDemand /\ [][NextDemand]_vars

\* the pipeline node over the array ys in the place of its own; the array
\* a concat stage appends is kept, or emptied
RECURSIVE WithRoot(_, _, _)
WithRoot(node, ys, keep) ==
    CASE node.kind \in {"array", "rawArray", "iter"} -> [node EXCEPT !.xs = ys]
      [] node.kind = "concat" ->
            [node EXCEPT !.srcs = [i \in DOMAIN node.srcs |->
                IF i = 1 THEN WithRoot(node.srcs[i], ys, keep)
                ELSE IF keep THEN node.srcs[i]
                ELSE [node.srcs[i] EXCEPT !.xs = <<>>]]]
      [] OTHER -> [node EXCEPT !.src = WithRoot(@, ys, keep)]

\* the traversal of q is past the stage concat is applied to, in the array
\* concat appends
Past ==
    /\ q.src.kind = "concat" /\ Len(q.src.srcs) = 2
    /\ Last.cur.i = 2

\* what may follow the elements read so far: nothing, or up to two more
\* elements, each even, odd, or a value met nowhere else
Unseen == MaxVal + 9
Further == SeqsUpTo((0..1) \cup {Unseen}, 2)

\* the first k elements q delivers are settled by the first m elements of
\* its array: q delivers them whatever follows those m and, as long as
\* the traversal has not reached the array concat appends, whatever that
\* array holds
Settled(m, k) ==
    \A t \in Further, keep \in IF Past THEN {TRUE} ELSE BOOLEAN :
        LET out == Query_iterate(WithRoot(q, SubSeq(Root(q), 1, m) \o t, keep), 0,
                                 World(EmptyHeap)).values
        IN  Len(out) >= k /\ SubSeq(out, 1, k) = Last.out

\* the fewest elements of the array that have to be read for k outputs
Needed(k) ==
    LET n == Len(Root(q))
    IN  Min(n, CHOOSE m \in 0..n : /\ m = n \/ Settled(m, k)
                                   /\ \A l \in 0..(m - 1) : ~Settled(l, k))

\* C30: in a pull traversal every lazy stage (where, select, selectMany,
\* concat, distinct, skip, skipWhile, take, takeWhile, intersperse, zip,
\* without) is driven by demand: a pipeline of such stages has read nothing
\* from its source when the traversal is begun and no output asked for,
\* and when it has delivered its k-th output it has read exactly the
\* elements without which that output is not settled; only a stage that
\* came to its end under concat, inside the request concat answers from
\* the array it appends, may have read one element more, the one it met
\* its end on
C30_DemandDriven ==
    (hist /= <<>> /\ ~Last.done)
        => LET reads == Len(ReadsOf(Last.log, "src"))
               needed == Needed(Len(Last.out))
           IN  /\ Last.out = <<>> => reads = 0
               /\ reads >= needed
               /\ reads <= needed + 1
               /\ ~Past => reads = needed

\* where(even).take(2) over [0, 1, 0] has delivered its second 0 and has
\* read all three elements; after the first it had read one
C30_Witness ==
    /\ hist /= <<>> /\ ~Last.done
    /\ q = Query_take(Query_where(Base, "even"), 2)
    /\ Root(q) = <<0, 1, 0>>
    /\ Last.out = <<0, 0>>
    /\ ReadsOf(Last.log, "src") = <<0, 1, 0>>

(***************************************************************************)
(* What the forEach of the outermost stage returns to the caller of a push *)
(* traversal.                                                              *)
(***************************************************************************)
\* the caller's iteratee returned false during the traversal: it stops at
\* its stopAt-th call
Refused(t) == t.arg > 0 /\ Len(t.out) >= t.arg

\* C31: in the push-capable variant the forEach of a stage returns false only
\* if the iteratee it was given returned false during that call: a stage
\* that ends for its own reasons (take, takeWhile, zip, skipWhile) reports
\* true.
C31_FalseOnlyOnStop ==
    (variant = "push" /\ Traversal /\ Last.op = "push" /\ Last.err = "")
        => (~Last.ret => Refused(Last))

(***************************************************************************)
(* all and any over pipelines some of whose sources are Query objects.     *)
(***************************************************************************)
\* q.all(predicate)
CallAll == \E p \in {"even", "pos"} : Traversed("all", p, Run("all", q, p, World(heap)))

\* q.any(predicate)
CallAny == \E p \in {"even", "pos"} : Traversed("any", p, Run("any", q, p, World(heap)))

InitAll == InitWith(Variants, {RawArray(xs) : xs \in BitArrays}, 1)
\* a stage or a wrapping added to q, two at most
Wrapped == ops < 2 /\ (From \/ Concat \/ Take \/ SelectMany \/ Join)
NextAll == Wrapped \/ CallAll \/ CallAny
SpecAll == InitAll /\ [][NextAll]_vars

\* C32: for every pipeline, including one whose sources are themselves Query
\* objects, all(p) returns true exactly when every element of the sequence
\* satisfies p (true for the empty sequence), and any(p) returns true
\* exactly when at least one element satisfies p.
C32_AllAny ==
    (Traversal /\ Last.op \in {"all", "any"})
        => LET xs == PullSeq(q)
           IN  /\ Last.op = "all"
                    => Last.out = <<\A i \in 1..Len(xs) : Pred(Last.arg, xs[i])>>
               /\ Last.op = "any"
                    => Last.out = <<\E i \in 1..Len(xs) : Pred(Last.arg, xs[i])>>

(***************************************************************************)
(* first over the same pipelines.                                          *)
(***************************************************************************)
\* q.first(predicate)
First == \E p \in {"even", "pos"} : Traversed("first", p, Run("first", q, p, World(heap)))

NextFirst == Wrapped \/ First
SpecFirst == InitAll /\ [][NextFirst]_vars

\* the values the terminal's predicate was evaluated on, in order
Tested(log) ==
    LET IsTest(ev) == ev.e = "test"
        tests == SelectSeq(log, IsTest)
    IN  [i \in 1..Len(tests) |-> tests[i].v]

\* C33: for every pipeline, including one whose sources are themselves Query
\* objects, first(p) returns the earliest element of the sequence that
\* satisfies p, or undefined when none does, and evaluates p on the
\* elements up to that one and on none after it.
C33_FirstMatch ==
    (Traversal /\ Last.op = "first")
        => LET xs == PullSeq(q)
               hits == {i \in 1..Len(xs) : Pred(Last.arg, xs[i])}
               at == IF hits = {} THEN Len(xs)
                     ELSE CHOOSE i \in hits : \A j \in hits : i <= j
           IN  /\ Last.out = <<IF hits = {} THEN undefined ELSE xs[at]>>
               /\ Tested(Last.log) = SubSeq(xs, 1, at)

(***************************************************************************)
(* elementAt at every position, inside and outside the sequence.           *)
(***************************************************************************)
Positions == (0 - 1)..(MaxFatLen + 1)

\* q.elementAt(position)
ElementAt ==
    \E position \in Positions :
        Traversed("elementAt", position, Run("elementAt", q, position, World(heap)))

NextAt == Select \/ ElementAt
SpecAt == InitFat /\ [][NextAt]_vars

\* C34: over a sequence xs of length n, elementAt(position) returns
\* xs[position] (counted from 0) when 0 <= position < n and undefined
\* otherwise, in every variant.
C34_ElementAt ==
    (Traversal /\ Last.op = "elementAt")
        => LET xs == PullSeq(q)
           IN  Last.out = <<IF 0 <= Last.arg /\ Last.arg < Len(xs)
                            THEN xs[Last.arg + 1] ELSE undefined>>

(***************************************************************************)
(* countBy over sequences in which keys recur.                             *)
(***************************************************************************)
\* q.countBy(keySelector)
CountBy ==
    \E f \in {"id", "half", "mod2"} :
        Traversed("countBy", f, Run("countBy", q, f, World(heap)))

NextCount == Where \/ CountBy
SpecCount == InitSort /\ [][NextCount]_vars

\* C35: countBy(keySelector) returns a map whose keys are the keys that
\* occur in the sequence and which maps each key to the number of elements
\* having that key.
C35_CountBy ==
    (Traversal /\ Last.op = "countBy")
        => LET xs == PullSeq(q)
               keys == {Sel(Last.arg, xs[i]) : i \in 1..Len(xs)}
           IN  Last.out = <<[k \in keys |->
                               Cardinality({i \in 1..Len(xs) : Sel(Last.arg, xs[i]) = k})]>>

(***************************************************************************)
(* skipWhile under pull and under push.                                    *)
(***************************************************************************)
NextSkipWhile == SkipWhile \/ ToArray \/ Spread \/ Each
SpecSkipWhile == InitWhere /\ [][NextSkipWhile]_vars

\* the length of the longest prefix of xs whose elements all satisfy p
RECURSIVE Leading(_, _)
Leading(xs, p) ==
    IF xs = <<>> \/ ~Pred(p, Head(xs)) THEN 0 ELSE 1 + Leading(Tail(xs), p)

\* the values a stage's predicate was evaluated on, in order
Judged(log) ==
    LET IsPred(ev) == ev.e = "pred"
        calls == SelectSeq(log, IsPred)
    IN  [i \in 1..Len(calls) |-> calls[i].v]

\* C36: skipWhile(p) drops the longest prefix of its input whose elements
\* all satisfy p and delivers every remaining element in order; p is
\* evaluated on the dropped elements and on the first delivered one, and
\* not again; pull and push traversal agree.
C36_SkipWhile ==
    (Traversal /\ Full(Last) /\ ops = 1 /\ q.src.kind = "skipWhile")
        => LET xs == Root(q)
               dropped == Leading(xs, q.src.p)
           IN  /\ Last.out = SubSeq(xs, dropped + 1, Len(xs))
               /\ Judged(Last.log) = SubSeq(xs, 1, Min(dropped + 1, Len(xs)))

(***************************************************************************)
(* shuffle over the arrays 1..n, for every outcome of the random number    *)
(* generator.                                                              *)
(***************************************************************************)
Shuffle == ops = 0 /\ Built(Query_shuffle(q))
NextShuffle == Shuffle \/ ToArray \/ Spread \/ Each
SpecShuffle == InitSample /\ [][NextShuffle]_vars

\* the arrangements of 1..n
Arrangements(n) == {f \in [1..n -> 1..n] : \A i, j \in 1..n : f[i] = f[j] => i = j}

\* C37: every output of shuffle() is a permutation of the input, and every
\* one of the n! permutations of the input is the output for some outcome
\* of the random number generator.
C37_Shuffle ==
    (Traversal /\ ops = 1 /\ q.src.kind = "thru")
        => LET n == Len(Root(q))
           IN  /\ Last.out \in Arrangements(n)
               /\ \A perm \in Arrangements(n) :
                      \E random \in Randoms :
                          Query_shuffle_transformer(Root(q), random) = perm

(***************************************************************************)
(* Two iterators obtained from one pipeline object and advanced in any     *)
(* order: hist holds one record per iterator.                              *)
(***************************************************************************)
CursorStages == {"distinct", "fatMap", "skip", "skipLast", "take", "intersperse",
                 "zip", "orderBy"}
Cursored ==
    /\ ops < 2 /\ hist = <<>>
    /\ \E stage \in CursorStages : Built(Staged(q, stage))

\* const iterator = q[Symbol.iterator](), a first or a second time
Obtain ==
    /\ ops >= 1 /\ Len(hist) < budget
    /\ LET o == Open(q.src, World(heap))
       IN  /\ hist' = Append(hist, [op |-> "iterate", arg |-> 0, out |-> <<>>, ret |-> TRUE,
                                    log |-> o.w.log, err |-> o.w.err, cur |-> o.cur,
                                    done |-> FALSE])
           /\ heap' = o.w.memo
    /\ UNCHANGED <<variant, q, ops, budget>>

\* next() on one of the iterators that were made and have not thrown; when
\* it throws nothing is returned, neither a value nor done
Advance ==
    \E n \in 1..Len(hist) :
        /\ ~hist[n].done /\ hist[n].err = ""
        /\ LET r == IterNext(q.src, hist[n].cur, [World(heap) EXCEPT !.log = hist[n].log])
           IN  /\ hist' = [hist EXCEPT ![n].out = IF r.done THEN @ ELSE Append(@, r.val),
                                       ![n].log = r.w.log, ![n].cur = r.cur,
                                       ![n].done = r.done /\ r.w.err = "",
                                       ![n].err = r.w.err]
               /\ heap' = r.w.memo
        /\ UNCHANGED <<variant, q, ops, budget>>

InitTwo == InitWith(Variants, {RawArray(xs) : xs \in BitArrays}, 2)
NextTwo == Cursored \/ Obtain \/ Advance
SpecTwo == InitTwo /\ [][NextTwo]_vars

\* C38: two pull cursors obtained from the same pipeline object (built from
\* distinct, fatMap, skip, skipLast, take, intersperse, zip or orderBy over
\* restartable sources) and advanced in any interleaving each yield the
\* sequence a single cursor yields: what each has yielded so far are the
\* first elements of that sequence, from the reads and calls a single
\* cursor makes for them, and all of it once the cursor is done.
C38_TwoCursors ==
    LET alone == Query_iterate(q, 0, World(EmptyHeap))
    IN  \A n \in 1..Len(hist) :
            /\ IsPrefix(hist[n].out, alone.values)
            /\ IsPrefix(hist[n].log, alone.w.log)
            /\ hist[n].done => hist[n].out = alone.values /\ hist[n].log = alone.w.log

\* two cursors over distinct() of [0, 0, 1]: the first has yielded 0, the
\* second 0 and 1, and the first is not done
C38_Witness ==
    /\ q = Query_distinct(Base, "id") /\ Root(q) = <<0, 0, 1>>
    /\ Len(hist) = 2
    /\ hist[1].out = <<0>> /\ ~hist[1].done
    /\ hist[2].out = <<0, 1>>

(***************************************************************************)
(* take(n) and skip(n) of the same Query, each traversed to the end, for   *)
(* counts below 0 and beyond the length.                                   *)
(***************************************************************************)
Cuts == (0 - 1)..(MaxLen + 1)

\* a = q.take(n) and b = q.skip(n), each traversed to the end by toArray(),
\* by [...a] or by a push traversal that never stops
Halves ==
    /\ hist = <<>>
    /\ \E n \in Cuts, op \in {"toArray", "iterate", "push"} :
          /\ op = "push" => variant = "push"
          /\ LET a == Run(op, Query_take(q, n), 0, World(heap))
                 b == Run(op, Query_skip(q, n), 0, World(a.w.memo))
             IN  /\ hist' = <<[op |-> op, arg |-> 0, count |-> n, out |-> a.values,
                               ret |-> TRUE, log |-> a.w.log, err |-> a.w.err],
                              [op |-> op, arg |-> 0, count |-> n, out |-> b.values,
                               ret |-> TRUE, log |-> b.w.log, err |-> b.w.err]>>
                 /\ heap' = b.w.memo
    /\ UNCHANGED <<variant, q, ops, budget>>

NextHalves == Where \/ Halves
SpecHalves == InitWith(Variants, {RawArray(xs) : xs \in Arrays}, 2) /\ [][NextHalves]_vars

\* C39: for every input xs and every integer n, below 1 and beyond the
\* length included, take(n) delivers the first min(max(n, 0), |xs|) elements
\* of xs in order and skip(n) the remaining ones in order, so that what
\* take(n) delivers followed by what skip(n) delivers is xs, under pull and
\* under push.
C39_TakeThenSkip ==
    Len(hist) = 2
        => LET xs == PullSeq(q)
               m == Min(Max(hist[1].count, 0), Len(xs))
           IN  /\ hist[1].out = SubSeq(xs, 1, m)
               /\ hist[2].out = SubSeq(xs, m + 1, Len(xs))
               /\ hist[1].out \o hist[2].out = xs

\* [0, 1, 1] cut after its first element, under push
C39_Witness ==
    /\ Len(hist) = 2 /\ ops = 0 /\ Root(q) = <<0, 1, 1>>
    /\ hist[1].op = "push" /\ hist[1].count = 1
    /\ hist[1].out = <<0>> /\ hist[2].out = <<1, 1>>

====
